---- MODULE Spec2Model ----
(***************************************************************************)
(* Fork-parity tracker: the triage engine (SmartTriageSystem), the         *)
(* dependency breadth-first traversal (calculateDependencyImpact), the     *)
(* resolution-time estimate (estimateResolutionTime) and the persistence   *)
(* store (ForkParityDatabase), each as a state machine over its own        *)
(* variables.  Numbers the source computes in IEEE-754 doubles are kept in *)
(* ten-thousandths (0.7 is 7000); where the double sum differs from the    *)
(* decimal sum by an ulp the value differs by one unit in the same         *)
(* direction, so every comparison the source makes has the source's        *)
(* outcome.                                                                *)
(***************************************************************************)
EXTENDS Integers, Sequences, FiniteSets, TLC

VARIABLES
    \* --- SmartTriageSystem ---
    patterns,        \* this.patterns: category -> [priority, confidence]
    triageOut,       \* what the latest call returned: sequence of [commit, hash, triage]
    planCommits,     \* the commits handed to generateIntegrationPlan: indices of PlanPool
    plan,            \* what generateIntegrationPlan returned for them
    commitIn,        \* None, or the commitData one analyzeCommit call is made with
    analysis,        \* None, or what that call did: [threw, triage]
    \* --- calculateConflictRisk / estimateEffort called on their own ---
    riskIn,          \* [filesChanged, impactAreas]: arguments of calculateConflictRisk
    riskOut,         \* None, or Some(its result)
    effortIn,        \* [fileCount, lineCount]: arguments of estimateEffort
    effortOut,       \* its result, or NotCalled
    adjustIn,        \* None, or the arguments of one adjustPriority call
    adjustOut,       \* None, or Some(its result)
    \* --- calculateDependencyImpact ---
    reverseDependencies, \* file -> set of files that import it
    changedFiles,    \* the commit's changed files (sequence)
    queue, visited, affectedFiles, criticalPaths,
    currentRadius, maxRadius, levelLeft,
    bfsPc,           \* "call" | "while" | "for" | "done"
    enqueued,        \* history: how often each file was put on the queue
    processed,       \* history: how often each file was taken from the queue
    \* --- estimateResolutionTime ---
    conflictList,    \* the conflicts argument: sequence of conflicted files
    estimate,        \* what the live (second) definition returns: [minutes, text]
    estimateFirst,   \* what the first (shadowed) definition returns
    \* --- learnAdaptationPattern ---
    clock,           \* what Date.now() returns, in milliseconds
    adaptationPatterns, \* this.adaptationPatterns: the Map, as id -> pattern
    learnedLog,      \* history: the patterns the learn calls returned, in order
    patternStore,    \* the patterns saved through this.db, in order
    \* --- generateConflictResolutions ---
    conflictData,    \* the conflicts the calls are made with: [head, incoming, type, file]
    importsLastIndex, \* this.conflictPatterns.imports.pattern.lastIndex (the regex has flag g)
    resolutions,     \* None, or what the latest call returned: its resolutions
    recommendedApproach, \* None, or what the latest call returned: its recommendedApproach
    \* --- createMigrationPlan ---
    migrationIn,     \* None, or the arguments of one createMigrationPlan call
    migrationPlan,   \* None, or what that call did: [threw, phases]
    \* --- mergeDependencies ---
    depsIn,          \* the conflict: what each side's lines parse to, if they parse
    depsOut,         \* None, or Some(what mergeDependencies returned)
    \* --- ForkParityDatabase ---
    foreignKeys,     \* whether the SQLite build enforces FOREIGN KEY clauses
    repositories, commits, triage_results, commit_status,
    seqRepositories, seqCommits, seqTriage, seqStatus, \* sqlite_sequence
    threw,           \* whether the latest call raised an SqliteError
    lastStatus,      \* history: commit id -> status of the latest updateCommitStatus
    recorded,        \* history: <<path, hash>> of every addCommit that returned
    decided,         \* history: <<path, hash>> of every commit a status was set for
    lastBatch,       \* history: the batchUpdateStatus call just made, if any
    \* --- AdvancedAnalysisSystem: the three per-commit analyses ---
    assessIn,        \* the commit data and the state of the working tree
    securityOut,     \* None, or Some(what assessSecurityImpact returned)
    breakingOut,     \* None, or Some(what identifyBreakingChanges returned)
    performanceOut   \* None, or Some(what predictPerformanceImpact returned)

planVars == <<planCommits, plan>>
builtVars == <<commitIn, analysis>>
triageVars == <<patterns, triageOut, planVars, builtVars>>
adjustVars == <<adjustIn, adjustOut>>
pureVars == <<riskIn, riskOut, effortIn, effortOut, adjustVars>>
assessVars == <<assessIn, securityOut, breakingOut, performanceOut>>
bfsVars == <<reverseDependencies, changedFiles, queue, visited, affectedFiles,
             criticalPaths, currentRadius, maxRadius, levelLeft, bfsPc,
             enqueued, processed, assessVars>>
estimateVars == <<conflictList, estimate, estimateFirst>>
learnVars == <<clock, adaptationPatterns, learnedLog, patternStore>>
\* IntegrationHelpersSystem
mergeVars == <<conflictData, importsLastIndex, resolutions, recommendedApproach>>
depsVars == <<depsIn, depsOut>>
migrationVars == <<migrationIn, migrationPlan, depsVars>>
resolveVars == <<estimateVars, learnVars, mergeVars, migrationVars>>
dbVars == <<foreignKeys, repositories, commits, triage_results, commit_status,
            seqRepositories, seqCommits, seqTriage, seqStatus, threw,
            lastStatus, recorded, decided, lastBatch>>
vars == <<triageVars, pureVars, bfsVars, resolveVars, dbVars>>

Undefined == "undefined"

(***************************************************************************)
(* Strings as the source uses them.                                        *)
(***************************************************************************)
\* String.prototype.includes
includes(s, k) ==
    \E i \in 1..(Len(s) - Len(k) + 1) : SubSeq(s, i, i + Len(k) - 1) = k

startsWith(s, k) == Len(k) <= Len(s) /\ SubSeq(s, 1, Len(k)) = k

endsWith(s, k) == Len(k) <= Len(s) /\ SubSeq(s, Len(s) - Len(k) + 1, Len(s)) = k

UpperCase == "ABCDEFGHIJKLMNOPQRSTUVWXYZ"
LowerCase == "abcdefghijklmnopqrstuvwxyz"

lowerChar(c) ==
    IF \E i \in 1..Len(UpperCase) : SubSeq(UpperCase, i, i) = c
    THEN LET i == CHOOSE j \in 1..Len(UpperCase) : SubSeq(UpperCase, j, j) = c
         IN SubSeq(LowerCase, i, i)
    ELSE c

\* String.prototype.toLowerCase
RECURSIVE toLowerCase(_)
toLowerCase(s) ==
    IF Len(s) = 0 THEN ""
    ELSE lowerChar(SubSeq(s, 1, 1)) \o toLowerCase(SubSeq(s, 2, Len(s)))

Min(a, b) == IF a <= b THEN a ELSE b

Max(a, b) == IF a >= b THEN a ELSE b

(***************************************************************************)
(* SmartTriageSystem: the constructor's tables.                            *)
(***************************************************************************)
Ladder == {"low", "medium", "high", "critical"}

\* Object.entries(this.patterns) visits the categories in insertion order
CategoryOrder == <<"security", "bugfix", "feature", "refactor", "docs", "test", "chore">>

keywords(category) ==
    CASE category = "security" ->
           <<"security", "vulnerability", "exploit", "cve", "xss", "csrf",
             "injection", "auth", "permission", "sanitize", "escape">>
      [] category = "bugfix" ->
           <<"fix", "bug", "issue", "error", "crash", "fail", "broken",
             "incorrect", "wrong", "patch">>
      [] category = "feature" ->
           <<"add", "new", "feature", "implement", "support", "enable", "introduce">>
      [] category = "refactor" ->
           <<"refactor", "cleanup", "reorganize", "restructure", "optimize",
             "improve", "simplify">>
      [] category = "docs" ->
           <<"doc", "readme", "comment", "documentation", "guide", "example", "tutorial">>
      [] category = "test" ->
           <<"test", "spec", "coverage", "mock", "stub", "fixture">>
      [] category = "chore" ->
           <<"chore", "update", "bump", "version", "dependency", "build", "ci", "lint">>

\* this.patterns as the constructor builds it (confidence in ten-thousandths)
patternsInit ==
    [category \in {CategoryOrder[i] : i \in DOMAIN CategoryOrder} |->
        CASE category = "security" -> [priority |-> "critical", confidence |-> 9000]
          [] category = "bugfix"   -> [priority |-> "high",     confidence |-> 8000]
          [] category = "feature"  -> [priority |-> "medium",   confidence |-> 7000]
          [] category = "refactor" -> [priority |-> "low",      confidence |-> 6000]
          [] category = "docs"     -> [priority |-> "low",      confidence |-> 9000]
          [] category = "test"     -> [priority |-> "low",      confidence |-> 8000]
          [] category = "chore"    -> [priority |-> "low",      confidence |-> 7000]]

AreaOrder == <<"core", "api", "ui", "database", "auth", "config", "build", "test", "docs">>

\* a regular expression of this.impactPatterns: anchored at the start (^x),
\* at the end (x$) or matched anywhere
Rx(kind, text) == [kind |-> kind, text |-> text]

impactPatterns(area) ==
    CASE area = "core" ->
           <<Rx("prefix", "src/core"), Rx("prefix", "lib/core"), Rx("prefix", "core/")>>
      [] area = "api" ->
           <<Rx("any", "api"), Rx("any", "endpoint"), Rx("any", "route"), Rx("any", "controller")>>
      [] area = "ui" ->
           <<Rx("any", "component"), Rx("any", "view"), Rx("any", "ui"),
             Rx("any", "frontend"), Rx("any", "client")>>
      [] area = "database" ->
           <<Rx("any", "migration"), Rx("any", "schema"), Rx("any", "model"),
             Rx("any", "db"), Rx("any", "database")>>
      [] area = "auth" ->
           <<Rx("any", "auth"), Rx("any", "login"), Rx("any", "permission"), Rx("any", "security")>>
      [] area = "config" ->
           <<Rx("any", "config"), Rx("any", "setting"), Rx("any", "env"), Rx("any", ".env")>>
      [] area = "build" ->
           <<Rx("any", "webpack"), Rx("any", "rollup"), Rx("any", "vite"), Rx("any", "build"),
             Rx("any", "package.json"), Rx("any", "Dockerfile")>>
      [] area = "test" ->
           <<Rx("any", "test"), Rx("any", "spec"), Rx("any", "__tests__")>>
      [] area = "docs" ->
           <<Rx("any", "readme"), Rx("any", "doc"), Rx("suffix", ".md")>>

\* RegExp.prototype.test for the three shapes above (no g flag: no lastIndex)
test(rx, file) ==
    CASE rx.kind = "prefix" -> startsWith(file, rx.text)
      [] rx.kind = "suffix" -> endsWith(file, rx.text)
      [] OTHER -> includes(file, rx.text)

EffortOrder == <<"trivial", "small", "medium", "large">>

effortPatterns(effort) ==
    CASE effort = "trivial" -> [maxFiles |-> 2,  maxLines |-> 10]
      [] effort = "small"   -> [maxFiles |-> 5,  maxLines |-> 50]
      [] effort = "medium"  -> [maxFiles |-> 15, maxLines |-> 200]
      [] effort = "large"   -> [maxFiles |-> 30, maxLines |-> 500]

\* Array.prototype.includes / some over a sequence
arrayIncludes(arr, x) == \E i \in DOMAIN arr : arr[i] = x

(***************************************************************************)
(* SmartTriageSystem: the methods.                                         *)
(***************************************************************************)
escalatePriority_NoFallback(priority) ==
    CASE priority = "low" -> "medium"
      [] priority = "medium" -> "high"
      [] priority = "high" -> "critical"
      [] OTHER -> Undefined

\* escalation[priority] || priority
escalatePriority(priority) ==
    CASE priority = "low" -> "medium"
      [] priority = "medium" -> "high"
      [] priority = "high" -> "critical"
      [] OTHER -> priority

\* deescalation[priority] || priority
deescalatePriority(priority) ==
    CASE priority = "critical" -> "high"
      [] priority = "high" -> "medium"
      [] priority = "medium" -> "low"
      [] OTHER -> priority

\* the count with the test turned round (keyword.includes(message)): every
\* keyword contains the empty message
matchCount_Reversed(message, category) ==
    Cardinality({i \in DOMAIN keywords(category) : includes(keywords(category)[i], message)})

\* pattern.keywords.filter(keyword => message.includes(keyword)).length
matchCount(message, category) ==
    Cardinality({i \in DOMAIN keywords(category) : includes(message, keywords(category)[i])})

\* pattern.confidence + (matchCount - 1) * 0.1 in doubles: 0.7 + 0.1 is
\* 0.7999999999999999 and 0.7 + 0.2 is 0.8999999999999999; the other sums
\* that stay at or below 0.9 are the decimal ones
floatConfidence(base, count) ==
    IF base = 7000 /\ count \in {2, 3}
    THEN base + (count - 1) * 1000 - 1
    ELSE base + (count - 1) * 1000

\* the for-loop with >= in place of >: a later category takes a tie
RECURSIVE bestMatchFrom_TieTakesLater(_, _, _, _)
bestMatchFrom_TieTakesLater(pats, message, i, bestMatch) ==
    IF i > Len(CategoryOrder) THEN bestMatch
    ELSE LET category == CategoryOrder[i]
             count == matchCount(message, category)
             confidence == Min(9000, floatConfidence(pats[category].confidence, count))
         IN IF count > 0 /\ confidence >= bestMatch.confidence
            THEN bestMatchFrom_TieTakesLater(pats, message, i + 1,
                     [category |-> category, priority |-> pats[category].priority,
                      confidence |-> confidence])
            ELSE bestMatchFrom_TieTakesLater(pats, message, i + 1, bestMatch)

\* the for-loop of categorizeCommit from category number i on
RECURSIVE bestMatchFrom(_, _, _, _)
bestMatchFrom(pats, message, i, bestMatch) ==
    IF i > Len(CategoryOrder) THEN bestMatch
    ELSE LET category == CategoryOrder[i]
             count == matchCount(message, category)
             confidence == Min(9000, floatConfidence(pats[category].confidence, count))
         IN IF count > 0 /\ confidence > bestMatch.confidence
            THEN bestMatchFrom(pats, message, i + 1,
                     [category |-> category, priority |-> pats[category].priority,
                      confidence |-> confidence])
            ELSE bestMatchFrom(pats, message, i + 1, bestMatch)

hasSecurityFiles(filesChanged) ==
    \E i \in DOMAIN filesChanged :
        LET file == toLowerCase(filesChanged[i])
        IN includes(file, "auth") \/ includes(file, "security")
           \/ includes(file, "permission") \/ includes(file, "login")

\* A categorizeCommit whose bestMatch is the table's own entry (bestMatch =
\* pattern) instead of a fresh object: the escalation writes into this.patterns
categorizeCommit_Aliased(pats, message, filesChanged) ==
    LET bestMatch == bestMatchFrom(pats, message, 1,
                        [category |-> "chore", priority |-> "low", confidence |-> 3000])
    IN IF hasSecurityFiles(filesChanged) /\ bestMatch.category # "security"
       THEN [bestMatch |-> [bestMatch EXCEPT !.priority = escalatePriority(@)],
             patterns |-> IF bestMatch.confidence > 3000
                          THEN [pats EXCEPT ![bestMatch.category].priority =
                                               escalatePriority(bestMatch.priority)]
                          ELSE pats]
       ELSE [bestMatch |-> bestMatch, patterns |-> pats]

\* categorizeCommit: the result and this.patterns after the call (bestMatch is
\* an object of its own, so the table is what it was)
categorizeCommit(pats, message, filesChanged) ==
    LET bestMatch == bestMatchFrom(pats, message, 1,
                        [category |-> "chore", priority |-> "low", confidence |-> 3000])
    IN IF hasSecurityFiles(filesChanged) /\ bestMatch.category # "security"
       THEN [bestMatch |-> [bestMatch EXCEPT !.priority = escalatePriority(@)],
             patterns |-> pats]
       ELSE [bestMatch |-> bestMatch, patterns |-> pats]

\* the areas one file adds, in table order
fileAreas(file) ==
    SelectSeq(AreaOrder,
              LAMBDA area : \E k \in DOMAIN impactPatterns(area) :
                                test(impactPatterns(area)[k], file))

\* Set.add of each area of a sequence, keeping insertion order
RECURSIVE addAll(_, _)
addAll(acc, areas) ==
    IF areas = <<>> THEN acc
    ELSE addAll(IF arrayIncludes(acc, Head(areas)) THEN acc ELSE Append(acc, Head(areas)),
                Tail(areas))

RECURSIVE impactAreasFrom(_, _, _)
impactAreasFrom(filesChanged, i, acc) ==
    IF i > Len(filesChanged) THEN acc
    ELSE impactAreasFrom(filesChanged, i + 1, addAll(acc, fileAreas(filesChanged[i])))

determineImpactAreas(filesChanged) == impactAreasFrom(filesChanged, 1, <<>>)

RECURSIVE effortFrom(_, _, _)
effortFrom(fileCount, lineCount, i) ==
    IF i > Len(EffortOrder) THEN "xl"
    ELSE LET limits == effortPatterns(EffortOrder[i])
         IN IF fileCount <= limits.maxFiles /\ lineCount <= limits.maxLines
            THEN EffortOrder[i]
            ELSE effortFrom(fileCount, lineCount, i + 1)

\* an estimateEffort that falls back to a middle bucket when no ceiling fits
estimateEffort_DefaultMedium(fileCount, lineCount) ==
    IF effortFrom(fileCount, lineCount, 1) = "xl" THEN "medium"
    ELSE effortFrom(fileCount, lineCount, 1)

estimateEffort(fileCount, lineCount) == effortFrom(fileCount, lineCount, 1)

commonFiles == <<"package.json", "README.md", "config.js", "index.js">>

hasCommonFiles(filesChanged) ==
    \E i \in DOMAIN filesChanged : \E k \in DOMAIN commonFiles :
        includes(filesChanged[i], commonFiles[k])

\* The double sum of calculateConflictRisk exceeds the decimal sum by an ulp
\* for exactly two argument shapes, both 0.7000000000000001: core and api
\* with five files and no common file (0.1 + 0.3 + 0.2 + 0.1), and database
\* alone with ten files and a common file (0.1 + 0.25 + 0.2 + 0.15)
riskUlp(core, api, database, n, common) ==
    IF \/ (core /\ api /\ ~database /\ n = 5 /\ ~common)
       \/ (~core /\ ~api /\ database /\ n = 10 /\ common)
    THEN 1 ELSE 0

\* a calculateConflictRisk that returns the raw sum
calculateConflictRisk_NoClamp(filesChanged, impactAreas) ==
    LET core == arrayIncludes(impactAreas, "core")
        api == arrayIncludes(impactAreas, "api")
        database == arrayIncludes(impactAreas, "database")
        common == hasCommonFiles(filesChanged)
    IN 1000 + (IF core THEN 3000 ELSE 0) + (IF api THEN 2000 ELSE 0)
            + (IF database THEN 2500 ELSE 0)
            + Min(3000, Len(filesChanged) * 200)
            + (IF common THEN 1500 ELSE 0)

calculateConflictRisk(filesChanged, impactAreas) ==
    LET core == arrayIncludes(impactAreas, "core")
        api == arrayIncludes(impactAreas, "api")
        database == arrayIncludes(impactAreas, "database")
        common == hasCommonFiles(filesChanged)
        risk == 1000 + (IF core THEN 3000 ELSE 0) + (IF api THEN 2000 ELSE 0)
                     + (IF database THEN 2500 ELSE 0)
                     + Min(3000, Len(filesChanged) * 200)
                     + (IF common THEN 1500 ELSE 0)
                     + riskUlp(core, api, database, Len(filesChanged), common)
    IN Min(10000, risk)

\* adjustPriority with the de-escalation applied first
adjustPriority_DeescalateFirst(basePriority, impactAreas, conflictRisk, effortEstimate) ==
    LET p0 == IF effortEstimate = "trivial" /\ basePriority # "critical"
              THEN deescalatePriority(basePriority) ELSE basePriority
        p1 == IF arrayIncludes(impactAreas, "core") \/ arrayIncludes(impactAreas, "auth")
              THEN escalatePriority(p0) ELSE p0
    IN IF conflictRisk > 7000 THEN escalatePriority(p1) ELSE p1

adjustPriority(basePriority, impactAreas, conflictRisk, effortEstimate) ==
    LET p1 == IF arrayIncludes(impactAreas, "core") \/ arrayIncludes(impactAreas, "auth")
              THEN escalatePriority(basePriority) ELSE basePriority
        p2 == IF conflictRisk > 7000 THEN escalatePriority(p1) ELSE p1
    IN IF effortEstimate = "trivial" /\ p2 # "critical"
       THEN deescalatePriority(p2) ELSE p2

\* Array.prototype.join(', ')
RECURSIVE join(_)
join(parts) ==
    IF parts = <<>> THEN ""
    ELSE IF Len(parts) = 1 THEN parts[1]
    ELSE parts[1] \o ", " \o join(Tail(parts))

generateReasoning(categoryResult, impactAreas, effortEstimate, conflictRisk, finalPriority) ==
    join(<<"Categorized as " \o categoryResult.category \o " based on commit message">>
         \o (IF Len(impactAreas) > 0
             THEN <<"affects " \o join(impactAreas) \o " areas">> ELSE <<>>)
         \o <<"estimated " \o effortEstimate \o " effort">>
         \o (IF conflictRisk > 5000
             THEN <<"high conflict risk (" \o ToString((conflictRisk + 50) \div 100) \o "%)">>
             ELSE <<>>)
         \o (IF finalPriority # categoryResult.priority
             THEN <<"priority adjusted from " \o categoryResult.priority
                    \o " to " \o finalPriority>>
             ELSE <<>>))

\* A field of commitData that may be missing: None, or Some(value)
None == {}
Some(v) == {v}

\* field || fallback
orElse(field, fallback) == IF field = None THEN fallback ELSE CHOOSE v \in field : TRUE

\* analyzeCommit: the TriageResult and this.patterns after the call
analyzeCommit(pats, commitData) ==
    LET message == toLowerCase(commitData.message)
        filesChanged == orElse(commitData.filesChanged, <<>>)
        totalLines == orElse(commitData.insertions, 0) + orElse(commitData.deletions, 0)
        categorized == categorizeCommit(pats, message, filesChanged)
        categoryResult == categorized.bestMatch
        impactAreas == determineImpactAreas(filesChanged)
        effortEstimate == estimateEffort(Len(filesChanged), totalLines)
        conflictRisk == calculateConflictRisk(filesChanged, impactAreas)
        adjustedPriority == adjustPriority(categoryResult.priority, impactAreas,
                                           conflictRisk, effortEstimate)
    IN [triage |-> [priority |-> adjustedPriority,
                    category |-> categoryResult.category,
                    impactAreas |-> impactAreas,
                    conflictRisk |-> conflictRisk,
                    effortEstimate |-> effortEstimate,
                    reasoning |-> generateReasoning(categoryResult, impactAreas,
                                      effortEstimate, conflictRisk, adjustedPriority),
                    confidence |-> categoryResult.confidence],
        patterns |-> categorized.patterns]

\* batchAnalyze: commits.map(...) calls analyzeCommit from left to right
RECURSIVE batchAnalyzeFrom(_, _, _, _)
batchAnalyzeFrom(pats, batch, i, acc) ==
    IF i > Len(batch) THEN [out |-> acc, patterns |-> pats]
    ELSE LET r == analyzeCommit(pats, batch[i])
         IN batchAnalyzeFrom(r.patterns, batch, i + 1,
                Append(acc, [hash |-> batch[i].hash, triage |-> r.triage]))

batchAnalyze(pats, batch) == batchAnalyzeFrom(pats, batch, 1, <<>>)

(***************************************************************************)
(* The commits the triage engine is run on.                                *)
(***************************************************************************)
PadFiles ==
    <<
      "lib/m01.js", "lib/m02.js", "lib/m03.js", "lib/m04.js", "lib/m05.js", "lib/m06.js",
      "lib/m07.js", "lib/m08.js", "lib/m09.js", "lib/m10.js", "lib/m11.js", "lib/m12.js",
      "lib/m13.js", "lib/m14.js", "lib/m15.js", "lib/m16.js", "lib/m17.js", "lib/m18.js",
      "lib/m19.js", "lib/m20.js", "lib/m21.js", "lib/m22.js", "lib/m23.js", "lib/m24.js",
      "lib/m25.js", "lib/m26.js", "lib/m27.js", "lib/m28.js", "lib/m29.js", "lib/m30.js",
      "lib/m31.js", "lib/m32.js", "lib/m33.js", "lib/m34.js"
    >>

Pad(n) == SubSeq(PadFiles, 1, n)

Commit(hash, message, filesChanged, insertions, deletions) ==
    [hash |-> hash, message |-> message, filesChanged |-> Some(filesChanged),
     insertions |-> Some(insertions), deletions |-> Some(deletions)]

CommitPool ==
    << Commit("c01", "fix: critical security vulnerability in JWT authentication middleware",
              <<"src/auth/jwt.js">>, 12, 4),
       [hash |-> "c02", message |-> "", filesChanged |-> None,
        insertions |-> None, deletions |-> None],
       Commit("c03", "Update README.md", <<"README.md">>, 5, 0),
       Commit("c04", "add new test", <<"lib/util.js">>, 30, 2),
       Commit("c05", "Fix crash in scheduler",
              <<"src/core/scheduler.js", "src/api/routes.js", "db/schema.sql", "package.json">>,
              120, 40),
       Commit("c06", "refactor: simplify", <<"src/core/a.js", "src/api/b.js">> \o Pad(3), 20, 20),
       Commit("c07", "fix redirect loop", <<"src/Login.jsx">>, 2, 1),
       Commit("c08", "feat: implement sync engine", Pad(16), 400, 200),
       Commit("c09", "add helper", <<"lib/util.js">>, 2, 0),
       Commit("c10", "fix typo", <<"lib/util.js">>, 20, 0) >>


(***************************************************************************)
(* Triage: analyzeCommit and batchAnalyze called in any order on one       *)
(* SmartTriageSystem.                                                      *)
(***************************************************************************)
MaxBatch == 2

PoolIndex == DOMAIN CommitPool

Batches == UNION {[1..n -> PoolIndex] : n \in 0..MaxBatch}

(***************************************************************************)
(* generateIntegrationPlan on a list of commits that grows by one commit   *)
(* from call to call.                                                      *)
(***************************************************************************)
MaxPlanLen == 6

\* one commit of each final priority: critical, high, medium, low
PlanPool ==
    << CommitPool[7], CommitPool[10],
       Commit("c11", "add helper", <<"lib/util.js">>, 20, 0),
       CommitPool[2] >>

\* Array.prototype.slice(begin, end) for 0 <= begin <= end
slice(arr, begin, end) == SubSeq(arr, begin + 1, Min(end, Len(arr)))

\* Array.prototype.slice(begin) for 0 <= begin
sliceFrom(arr, begin) == SubSeq(arr, begin + 1, Len(arr))

\* Array.prototype.filter on the priority of the triage
filterPriority(arr, priority) ==
    SelectSeq(arr, LAMBDA c : c.triage.priority = priority)

effortPoints(effort) ==
    CASE effort = "trivial" -> 1
      [] effort = "small"   -> 3
      [] effort = "medium"  -> 8
      [] effort = "large"   -> 20
      [] effort = "xl"      -> 40
      [] OTHER              -> 0

RECURSIVE calculateTotalEffort(_)
calculateTotalEffort(analyzedCommits) ==
    IF analyzedCommits = <<>> THEN 0
    ELSE effortPoints(Head(analyzedCommits).triage.effortEstimate)
         + calculateTotalEffort(Tail(analyzedCommits))

\* the objects batchAnalyze creates, one per input commit; `at` stands for the
\* identity of the object (its position in the analyzed array)
analyzedObjects(out) ==
    [k \in DOMAIN out |-> [at |-> k, hash |-> out[k].hash, triage |-> out[k].triage]]

\* generateIntegrationPlan that leaves the fourth high commit out
generateIntegrationPlan_SliceGap(pats, commitList) ==
    LET r == batchAnalyze(pats, commitList)
        analyzed == analyzedObjects(r.out)
        critical == filterPriority(analyzed, "critical")
        high == filterPriority(analyzed, "high")
        medium == filterPriority(analyzed, "medium")
        low == filterPriority(analyzed, "low")
    IN [plan |-> [immediate |-> critical \o slice(high, 0, 3),
                  nextSprint |-> sliceFrom(high, 4) \o slice(medium, 0, 5),
                  backlog |-> sliceFrom(medium, 5) \o low,
                  summary |-> [totalCommits |-> Len(commitList),
                               criticalCount |-> Len(critical),
                               highCount |-> Len(high),
                               mediumCount |-> Len(medium),
                               lowCount |-> Len(low),
                               estimatedEffort |-> calculateTotalEffort(analyzed)]],
        patterns |-> r.patterns]

generateIntegrationPlan(pats, commitList) ==
    LET r == batchAnalyze(pats, commitList)
        analyzed == analyzedObjects(r.out)
        critical == filterPriority(analyzed, "critical")
        high == filterPriority(analyzed, "high")
        medium == filterPriority(analyzed, "medium")
        low == filterPriority(analyzed, "low")
    IN [plan |-> [immediate |-> critical \o slice(high, 0, 3),
                  nextSprint |-> sliceFrom(high, 3) \o slice(medium, 0, 5),
                  backlog |-> sliceFrom(medium, 5) \o low,
                  summary |-> [totalCommits |-> Len(commitList),
                               criticalCount |-> Len(critical),
                               highCount |-> Len(high),
                               mediumCount |-> Len(medium),
                               lowCount |-> Len(low),
                               estimatedEffort |-> calculateTotalEffort(analyzed)]],
        patterns |-> r.patterns]

PlanIdle == planCommits = <<>> /\ plan = generateIntegrationPlan(patternsInit, <<>>).plan

\* generateIntegrationPlan(commits) on the list so far and one more commit
GenerateIntegrationPlan(i) ==
    /\ Len(planCommits) < MaxPlanLen
    /\ planCommits' = Append(planCommits, i)
    /\ \E r \in {generateIntegrationPlan(patterns,
                    [k \in DOMAIN planCommits' |-> PlanPool[planCommits'[k]]])} :
          /\ plan' = r.plan
          /\ patterns' = r.patterns
    /\ UNCHANGED <<triageOut, builtVars, pureVars, bfsVars, resolveVars, dbVars>>

NextPlan == \E i \in DOMAIN PlanPool : GenerateIntegrationPlan(i)

(***************************************************************************)
(* One analyzeCommit call on a commitData object put together from parts:  *)
(* a message (or none), a file list (or none), line counts (or none).      *)
(***************************************************************************)
MaxAuthFiles == 6

AuthFiles ==
    <<"src/auth/jwt.js", "src/auth/session.js", "src/auth/api/schema/index.js",
      "src/auth/token.js", "src/auth/guard.js", "src/auth/roles.js", "src/auth/keys.js">>

BuiltMessages ==
    { None,
      Some(""),
      Some("fix: critical security vulnerability in JWT authentication middleware"),
      Some("Fix XSS"),
      Some("docs: readme for auth"),
      Some("add new csrf test spec"),
      Some("Update README.md"),
      Some("fix typo") }

BuiltFileLists ==
    {None, Some(<<>>), Some(<<"README.md">>)}
        \cup {Some(SubSeq(AuthFiles, 1, n)) : n \in 1..MaxAuthFiles}
        \cup {Some(SubSeq(AuthFiles, 3, 3))}

BuiltLineCounts == {None, Some(0), Some(5), Some(60), Some(600)}

BuiltCommits ==
    [message : BuiltMessages, filesChanged : BuiltFileLists,
     insertions : BuiltLineCounts, deletions : {None, Some(0)}]

\* the call analyzeCommit(commitData): commitData.message.toLowerCase() raises
\* a TypeError when the object has no message
callAnalyzeCommit(pats, commitData) ==
    IF commitData.message = None
    THEN [threw |-> TRUE, triage |-> None, patterns |-> pats]
    ELSE LET r == analyzeCommit(pats, [commitData EXCEPT !.message = orElse(@, "")])
         IN [threw |-> FALSE, triage |-> Some(r.triage), patterns |-> r.patterns]

BuiltIdle == commitIn = None /\ analysis = None

\* triage.analyzeCommit(commitData)
AnalyzeBuilt ==
    /\ analysis = None
    /\ \E commitData \in commitIn :
       \E r \in {callAnalyzeCommit(patterns, commitData)} :
          /\ analysis' = Some([threw |-> r.threw, triage |-> r.triage])
          /\ patterns' = r.patterns
    /\ UNCHANGED <<commitIn, triageOut, planVars, pureVars, bfsVars, resolveVars, dbVars>>

TriageIdle == patterns = patternsInit /\ triageOut = <<>> /\ PlanIdle /\ BuiltIdle

AnalyzeCommit(i) ==
    \E r \in {analyzeCommit(patterns, CommitPool[i])} :
       /\ triageOut' = <<[commit |-> i, hash |-> CommitPool[i].hash, triage |-> r.triage]>>
       /\ patterns' = r.patterns
       /\ UNCHANGED <<planVars, builtVars, pureVars, bfsVars, resolveVars, dbVars>>

BatchAnalyze(batch) ==
    \E r \in {batchAnalyze(patterns, [k \in DOMAIN batch |-> CommitPool[batch[k]]])} :
       /\ triageOut' = [k \in DOMAIN batch |->
                           [commit |-> batch[k], hash |-> r.out[k].hash,
                            triage |-> r.out[k].triage]]
       /\ patterns' = r.patterns
       /\ UNCHANGED <<planVars, builtVars, pureVars, bfsVars, resolveVars, dbVars>>

(***************************************************************************)
(* calculateConflictRisk and estimateEffort on arguments of their own.     *)
(***************************************************************************)
MaxPad == 16
MaxFileCount == 32
MaxLineCount == 502

RiskBases == {<<>>, <<"package.json">>, <<"src/index.js", "lib/util.js">>, <<"lib/util.js">>}

AreaSets == SUBSET {AreaOrder[i] : i \in DOMAIN AreaOrder}

RiskInputs ==
    {[filesChanged |-> base \o Pad(k),
      impactAreas |-> SelectSeq(AreaOrder, LAMBDA a : a \in areas)] :
        base \in RiskBases, k \in 0..MaxPad, areas \in AreaSets}

NotCalled == "not called"

PureIdle == /\ riskIn = [filesChanged |-> <<>>, impactAreas |-> <<>>] /\ riskOut = None
            /\ effortIn = [fileCount |-> 0, lineCount |-> 0] /\ effortOut = NotCalled
            /\ adjustIn = None /\ adjustOut = None

\* the arguments adjustPriority is called with on its own; the risks lie on
\* both sides of 0.7
AdjustAreas == {<<>>, <<"core">>, <<"auth">>, <<"api">>, <<"core", "auth">>, <<"api", "docs">>}
AdjustRisks == {1000, 6999, 7000, 7001, 10000}
AdjustEfforts == {"trivial", "small", "medium", "large", "xl"}

AdjustInputs ==
    [basePriority : Ladder, impactAreas : AdjustAreas,
     conflictRisk : AdjustRisks, effortEstimate : AdjustEfforts]

CallAdjustPriority ==
    /\ adjustOut = None
    /\ \E in \in adjustIn :
          adjustOut' = Some(adjustPriority(in.basePriority, in.impactAreas,
                                           in.conflictRisk, in.effortEstimate))
    /\ UNCHANGED <<adjustIn, riskIn, riskOut, effortIn, effortOut,
                   triageVars, bfsVars, resolveVars, dbVars>>

CallConflictRisk ==
    /\ riskOut = None
    /\ riskOut' = Some(calculateConflictRisk(riskIn.filesChanged, riskIn.impactAreas))
    /\ UNCHANGED <<riskIn, effortIn, effortOut, adjustVars, triageVars, bfsVars, resolveVars, dbVars>>

CallEstimateEffort ==
    /\ effortOut = NotCalled
    /\ effortOut' = estimateEffort(effortIn.fileCount, effortIn.lineCount)
    /\ UNCHANGED <<effortIn, riskIn, riskOut, adjustVars, triageVars, bfsVars, resolveVars, dbVars>>

\* the same commit with one more changed file, estimated again
MoreFiles ==
    /\ effortOut # NotCalled /\ effortIn.fileCount < MaxFileCount
    /\ effortIn' = [effortIn EXCEPT !.fileCount = @ + 1]
    /\ effortOut' = estimateEffort(effortIn'.fileCount, effortIn'.lineCount)
    /\ UNCHANGED <<riskIn, riskOut, adjustVars, triageVars, bfsVars, resolveVars, dbVars>>

\* the same commit with one more changed line, estimated again
MoreLines ==
    /\ effortOut # NotCalled /\ effortIn.lineCount < MaxLineCount
    /\ effortIn' = [effortIn EXCEPT !.lineCount = @ + 1]
    /\ effortOut' = estimateEffort(effortIn'.fileCount, effortIn'.lineCount)
    /\ UNCHANGED <<riskIn, riskOut, adjustVars, triageVars, bfsVars, resolveVars, dbVars>>

(***************************************************************************)
(* AdvancedAnalysisSystem: assessSecurityImpact, identifyBreakingChanges   *)
(* and predictPerformanceImpact.  Each scans the content of every changed  *)
(* file with its pattern table, one finding per pattern that matches, and  *)
(* then looks at the file names.  A file's content is given here by the    *)
(* patterns of each table it matches, named by their category in table     *)
(* order.  A finding is [type, level, file, files]: level is its severity  *)
(* or impact, file the file a content scan found it in, files the names a  *)
(* name check found; a field the code leaves out is Undefined or <<>>.     *)
(***************************************************************************)
MaxChanged == 2

securitySeverity ==
    [injection |-> "critical", authentication |-> "high",
     cryptography |-> "high", dataExposure |-> "medium"]

breakingSeverity ==
    [api |-> "high", database |-> "critical", config |-> "medium", dependencies |-> "medium"]

performanceImpactOf ==
    [loops |-> "medium", database |-> "high", memory |-> "medium"]

NoMatches == [security |-> <<>>, breaking |-> <<>>, performance |-> <<>>]

\* the working tree: what each path holds
contentOf(path) ==
    CASE path = "src/logger.js" ->
            [NoMatches EXCEPT !.security = <<"dataExposure">>]
      [] path = "src/debug.js" ->
            [NoMatches EXCEPT !.security = <<"dataExposure", "dataExposure",
                                             "dataExposure", "dataExposure">>,
                              !.performance = <<"loops">>]
      [] path = "db/schema.sql" ->
            [NoMatches EXCEPT !.breaking = <<"database">>, !.performance = <<"database">>]
      [] path = "src/settings.js" ->
            [NoMatches EXCEPT !.breaking = <<"config">>]
      [] path = "src/session.js" ->
            [NoMatches EXCEPT !.security = <<"authentication", "authentication">>,
                              !.breaking = <<"api">>]
      [] path = "src/run.js" ->
            [NoMatches EXCEPT !.security = <<"injection">>]
      [] path = "package.json" ->
            [NoMatches EXCEPT !.breaking = <<"dependencies">>]
      [] OTHER -> NoMatches

TreePaths ==
    {"src/util.js", "src/logger.js", "src/debug.js", "db/schema.sql", "src/settings.js",
     "src/session.js", "src/run.js", "package.json", "src/worker.js"}

\* existsSync is false for "missing"; readFileSync throws for "unreadable"
FileStates == {"ok", "missing", "unreadable"}

AssessMessages == {"update helpers", "security patch", "BREAKING: drop v1"}

AssessLineCounts == {[insertions |-> 10, deletions |-> 0], [insertions |-> 400, deletions |-> 200]}

PathLists == UNION {[1..n -> TreePaths] : n \in 0..MaxChanged}

namesOf(filesChanged) == {filesChanged[i] : i \in DOMAIN filesChanged}

\* only the changed files are ever looked at: the others are there
Trees(filesChanged) ==
    {[q \in TreePaths |-> IF q \in gone THEN "missing"
                      ELSE IF q \in bad THEN "unreadable" ELSE "ok"] :
        gone \in SUBSET namesOf(filesChanged), bad \in SUBSET namesOf(filesChanged)}

AssessInputs ==
    UNION {{[message |-> m, filesChanged |-> fc, insertions |-> l.insertions,
             deletions |-> l.deletions, tree |-> t] :
                m \in AssessMessages, l \in AssessLineCounts, t \in Trees(fc)} :
           fc \in PathLists}

finding(type, level, file, files) ==
    [type |-> type, level |-> level, file |-> file, files |-> files]

\* Array.prototype.filter
RECURSIVE filterSeq(_, _)
filterSeq(seq, keep) ==
    IF seq = <<>> THEN <<>>
    ELSE (IF keep[Head(seq)] THEN <<Head(seq)>> ELSE <<>>) \o filterSeq(Tail(seq), keep)

namesWith(filesChanged, words) ==
    filterSeq(filesChanged, [q \in namesOf(filesChanged) |->
                                 \E w \in words : includes(q, w)])

someLevel(findings, level) == \E i \in DOMAIN findings : findings[i].level = level

analyzeFileForSecurity(file, content) ==
    [k \in DOMAIN content.security |->
        finding(content.security[k], securitySeverity[content.security[k]], file, <<>>)]

analyzeFileForBreakingChanges(file, content) ==
    [k \in DOMAIN content.breaking |->
        finding(content.breaking[k], breakingSeverity[content.breaking[k]], file, <<>>)]

analyzeFileForPerformance(file, content) ==
    [k \in DOMAIN content.performance |->
        finding(content.performance[k], performanceImpactOf[content.performance[k]], file, <<>>)]

\* the risk after a file with security issues
securityRiskAfter_HighOverwrites(risk, issues) ==
    IF someLevel(issues, "critical") THEN "critical"
    ELSE IF someLevel(issues, "high") THEN "high"
    ELSE IF risk = "low" THEN "medium" ELSE risk

securityRiskAfter(risk, issues) ==
    IF someLevel(issues, "critical") THEN "critical"
    ELSE IF someLevel(issues, "high") /\ risk # "critical" THEN "high"
    ELSE IF risk = "low" THEN "medium" ELSE risk

\* one turn of the loop over the changed files
securityFile(result, file, tree) ==
    IF tree[file] # "ok" THEN result
    ELSE LET issues == analyzeFileForSecurity(file, contentOf(file))
         IN IF issues = <<>> THEN result
            ELSE [result EXCEPT
                    !.vulnerabilities = @ \o issues,
                    !.securityRisk = securityRiskAfter(@, issues),
                    !.requiresSecurityReview =
                        @ \/ someLevel(issues, "critical") \/ someLevel(issues, "high")]

RECURSIVE securityFiles(_, _, _)
securityFiles(result, filesChanged, tree) ==
    IF filesChanged = <<>> THEN result
    ELSE securityFiles(securityFile(result, Head(filesChanged), tree), Tail(filesChanged), tree)

securityKeywords ==
    {"security", "vulnerability", "cve", "exploit", "patch", "auth", "permission"}

assessSecurityImpact(commitData) ==
    LET message == toLowerCase(commitData.message)
        start == [securityRisk |-> "low", vulnerabilities |-> <<>>,
                  requiresSecurityReview |-> FALSE]
        keyed == IF \E k \in securityKeywords : includes(message, k)
                 THEN [securityRisk |-> "high",
                       vulnerabilities |-> <<finding("explicit", "high", Undefined, <<>>)>>,
                       requiresSecurityReview |-> TRUE]
                 ELSE start
        scanned == securityFiles(keyed, commitData.filesChanged, commitData.tree)
        packageFiles == namesWith(commitData.filesChanged,
                                  {"package.json", "requirements.txt", "Gemfile", "go.mod"})
    IN IF packageFiles = <<>> THEN scanned
       ELSE [scanned EXCEPT
               !.vulnerabilities = @ \o <<finding("dependency", "medium", Undefined, packageFiles)>>,
               !.securityRisk = IF @ = "low" THEN "medium" ELSE @]

\* one turn of the loop over the changed files; a read that throws is caught
\* inside the loop, which goes on with the next file
breakingFile_ReadAborts(result, file, tree) ==
    IF result.error \/ tree[file] = "missing" THEN result
    ELSE IF tree[file] = "unreadable" THEN [result EXCEPT !.error = TRUE]
    ELSE LET found == analyzeFileForBreakingChanges(file, contentOf(file))
         IN IF found = <<>> THEN result
            ELSE [result EXCEPT
                    !.hasBreakingChanges = TRUE,
                    !.breakingChanges = @ \o found,
                    !.severity = IF someLevel(found, "critical") THEN "critical"
                                 ELSE IF @ # "critical" THEN "high" ELSE @]

breakingFile(result, file, tree) ==
    IF tree[file] # "ok" THEN result
    ELSE LET found == analyzeFileForBreakingChanges(file, contentOf(file))
         IN IF found = <<>> THEN result
            ELSE [result EXCEPT
                    !.hasBreakingChanges = TRUE,
                    !.breakingChanges = @ \o found,
                    !.severity = IF someLevel(found, "critical") THEN "critical"
                                 ELSE IF @ # "critical" THEN "high" ELSE @]

RECURSIVE breakingFiles(_, _, _)
breakingFiles(result, filesChanged, tree) ==
    IF filesChanged = <<>> THEN result
    ELSE breakingFiles(breakingFile(result, Head(filesChanged), tree), Tail(filesChanged), tree)

breakingKeywords == {"breaking", "breaking change", "breaking:", "major:", "incompatible"}

\* error is set where the outer catch has run
identifyBreakingChanges(commitData) ==
    LET message == toLowerCase(commitData.message)
        start == [hasBreakingChanges |-> FALSE, breakingChanges |-> <<>>,
                  severity |-> "none", migrationRequired |-> FALSE, error |-> FALSE]
        keyed == IF \E k \in breakingKeywords : includes(message, k)
                 THEN [start EXCEPT
                         !.hasBreakingChanges = TRUE, !.severity = "high",
                         !.breakingChanges = <<finding("explicit", Undefined, Undefined, <<>>)>>]
                 ELSE start
        scanned == breakingFiles(keyed, commitData.filesChanged, commitData.tree)
        migration == \E i \in DOMAIN scanned.breakingChanges :
                        \/ scanned.breakingChanges[i].type \in {"database", "api"}
                        \/ scanned.breakingChanges[i].level = "critical"
        versionFiles == namesWith(commitData.filesChanged, {"package.json", "version", "CHANGELOG"})
    IN IF scanned.error THEN [scanned EXCEPT !.severity = "unknown"]
       ELSE [scanned EXCEPT
               !.migrationRequired = migration,
               !.breakingChanges =
                   IF versionFiles # <<>> /\ scanned.hasBreakingChanges
                   THEN @ \o <<finding("version", "medium", Undefined, versionFiles)>>
                   ELSE @]

performanceFile(result, file, tree) ==
    IF tree[file] # "ok" THEN result
    ELSE LET issues == analyzeFileForPerformance(file, contentOf(file))
         IN IF issues = <<>> THEN result
            ELSE IF someLevel(issues, "high")
            THEN [result EXCEPT !.hotspots = @ \o issues,
                                  !.performanceImpact = "negative",
                                  !.requiresPerformanceTest = TRUE]
            ELSE [result EXCEPT !.hotspots = @ \o issues,
                                  !.performanceImpact =
                                      IF @ = "neutral" THEN "minor-negative" ELSE @]

RECURSIVE performanceFiles(_, _, _)
performanceFiles(result, filesChanged, tree) ==
    IF filesChanged = <<>> THEN result
    ELSE performanceFiles(performanceFile(result, Head(filesChanged), tree),
                          Tail(filesChanged), tree)

\* the hotspots analyzePerformanceMetrics adds: memory, cpu, io, in this order
analyzePerformanceMetrics(filesChanged) ==
    LET memoryIntensiveFiles == namesWith(filesChanged, {"buffer", "stream", "cache", "memory"})
        cpuIntensiveFiles == namesWith(filesChanged, {"algorithm", "compute", "process", "worker"})
        ioIntensiveFiles == namesWith(filesChanged, {"file", "disk", "network", "http"})
    IN (IF memoryIntensiveFiles # <<>>
        THEN <<finding("memory", "high", Undefined, memoryIntensiveFiles)>> ELSE <<>>)
       \o (IF cpuIntensiveFiles # <<>>
           THEN <<finding("cpu", "high", Undefined, cpuIntensiveFiles)>> ELSE <<>>)
       \o (IF ioIntensiveFiles # <<>>
           THEN <<finding("io", "medium", Undefined, ioIntensiveFiles)>> ELSE <<>>)

predictPerformanceImpact(commitData) ==
    LET totalLines == commitData.insertions + commitData.deletions
        start == [performanceImpact |-> "neutral", hotspots |-> <<>>,
                  complexityIncrease |-> 0, requiresPerformanceTest |-> FALSE]
        scanned == performanceFiles(start, commitData.filesChanged, commitData.tree)
        sized == IF totalLines > 500
                 THEN [scanned EXCEPT !.complexityIncrease = 3,
                                      !.requiresPerformanceTest = TRUE]
                 ELSE IF totalLines > 200 THEN [scanned EXCEPT !.complexityIncrease = 2]
                 ELSE IF totalLines > 50 THEN [scanned EXCEPT !.complexityIncrease = 1]
                 ELSE scanned
        measured == [sized EXCEPT
                       !.hotspots = @ \o analyzePerformanceMetrics(commitData.filesChanged)]
        dbFiles == namesWith(commitData.filesChanged, {"migration", "schema", "model", "query"})
        stored == IF dbFiles = <<>> THEN measured
                  ELSE [measured EXCEPT
                          !.hotspots = @ \o <<finding("database", "high", Undefined, dbFiles)>>,
                          !.performanceImpact = "negative",
                          !.requiresPerformanceTest = TRUE]
        buildFiles == namesWith(commitData.filesChanged,
                                {"webpack", "rollup", "vite", "package.json"})
    IN IF buildFiles = <<>> THEN stored
       ELSE [stored EXCEPT
               !.hotspots = @ \o <<finding("build", "medium", Undefined, buildFiles)>>]

AssessIdle ==
    assessIn = None /\ securityOut = None /\ breakingOut = None /\ performanceOut = None

AssessSecurityImpact ==
    /\ assessIn # None /\ securityOut = None
    /\ \E c \in assessIn : \E r \in {assessSecurityImpact(c)} : securityOut' = Some(r)
    /\ UNCHANGED <<assessIn, breakingOut, performanceOut>>
    /\ UNCHANGED <<reverseDependencies, changedFiles, queue, visited, affectedFiles,
                   criticalPaths, currentRadius, maxRadius, levelLeft, bfsPc,
                   enqueued, processed, triageVars, pureVars, resolveVars, dbVars>>

IdentifyBreakingChanges ==
    /\ assessIn # None /\ breakingOut = None
    /\ \E c \in assessIn : \E r \in {identifyBreakingChanges(c)} : breakingOut' = Some(r)
    /\ UNCHANGED <<assessIn, securityOut, performanceOut>>
    /\ UNCHANGED <<reverseDependencies, changedFiles, queue, visited, affectedFiles,
                   criticalPaths, currentRadius, maxRadius, levelLeft, bfsPc,
                   enqueued, processed, triageVars, pureVars, resolveVars, dbVars>>

PredictPerformanceImpact ==
    /\ assessIn # None /\ performanceOut = None
    /\ \E c \in assessIn : \E r \in {predictPerformanceImpact(c)} : performanceOut' = Some(r)
    /\ UNCHANGED <<assessIn, securityOut, breakingOut>>
    /\ UNCHANGED <<reverseDependencies, changedFiles, queue, visited, affectedFiles,
                   criticalPaths, currentRadius, maxRadius, levelLeft, bfsPc,
                   enqueued, processed, triageVars, pureVars, resolveVars, dbVars>>

NextAssess == AssessSecurityImpact \/ IdentifyBreakingChanges \/ PredictPerformanceImpact

(***************************************************************************)
(* calculateDependencyImpact: one call, statement by statement.  Files are *)
(* numbered; reverseDependencies.get(file) || new Set() is the function's  *)
(* value at file.  A Set is visited in ascending order here; the sets and  *)
(* the radius the call returns do not depend on that order.                *)
(***************************************************************************)
NumFiles == 7
DepthCap == 5
CriticalFanIn == 5
CriticalKept == 10

Files == 1..NumFiles

\* imports beyond the chain 1 <- 2 <- ... : none, any single import (a
\* shortcut, a cycle back, a file importing itself), a self-import together
\* with a cycle, two files in a cycle, and a file every other file imports
ExtraImports ==
    {{}} \cup {{e} : e \in Files \X Files}
         \cup {{<<2, 2>>, <<3, 1>>}, {<<1, 1>>, <<2, 1>>}, {<<1, 3>>, <<1, 4>>}}
         \cup {{<<2, f>> : f \in Files \ {2}}}

Graphs ==
    {[f \in Files |-> {g \in Files : (g = f + 1 /\ g <= len) \/ <<f, g>> \in extra}] :
        len \in Files, extra \in ExtraImports}

ChangedFileLists == {<<>>, <<1>>, <<2, 1>>, <<1, 4>>}

BfsIdle ==
    /\ reverseDependencies = [f \in Files |-> {}] /\ changedFiles = <<>>
    /\ queue = <<>> /\ visited = {} /\ affectedFiles = {} /\ criticalPaths = <<>>
    /\ currentRadius = 0 /\ maxRadius = 0 /\ levelLeft = 0 /\ bfsPc = "done"
    /\ enqueued = [f \in Files |-> 0] /\ processed = [f \in Files |-> 0]
    /\ AssessIdle

InitBfs ==
    /\ reverseDependencies \in Graphs /\ changedFiles \in ChangedFileLists
    /\ queue = <<>> /\ visited = {} /\ affectedFiles = {} /\ criticalPaths = <<>>
    /\ currentRadius = 0 /\ maxRadius = 0 /\ levelLeft = 0 /\ bfsPc = "call"
    /\ enqueued = [f \in Files |-> 0] /\ processed = [f \in Files |-> 0]
    /\ AssessIdle

\* ascending sequence of a set of files
RECURSIVE inOrder(_)
inOrder(S) ==
    IF S = {} THEN <<>>
    ELSE LET least == CHOOSE f \in S : \A g \in S : f <= g
         IN <<least>> \o inOrder(S \ {least})

\* the dependents the inner loop pushes when it ignores the visited set
unvisited_NoCheck(dependents, seen) == inOrder(dependents)

\* the dependents that pass  if (!visited.has(dependent))
unvisited(dependents, seen) == inOrder(dependents \ seen)

\* a loop that runs one level too far
whileCondition_OffByOne(q, radius) == Len(q) > 0 /\ radius <= DepthCap

\* while (queue.length > 0 && currentRadius < 5)
whileCondition(q, radius) == Len(q) > 0 /\ radius < DepthCap

\* Array.prototype.sort((a, b) => b.dependentCount - a.dependentCount): stable
RECURSIVE sortByDependentCount(_)
sortByDependentCount(paths) ==
    IF paths = <<>> THEN <<>>
    ELSE LET top == CHOOSE i \in DOMAIN paths :
                        /\ \A j \in DOMAIN paths : paths[j].dependentCount <= paths[i].dependentCount
                        /\ \A j \in 1..(i - 1) : paths[j].dependentCount < paths[i].dependentCount
         IN <<paths[top]>> \o
            sortByDependentCount(SubSeq(paths, 1, top - 1) \o SubSeq(paths, top + 1, Len(paths)))

\* const queue = [...changedFiles]; const visited = new Set(changedFiles)
EnterImpact ==
    /\ bfsPc = "call"
    /\ queue' = changedFiles
    /\ visited' = {changedFiles[i] : i \in DOMAIN changedFiles}
    /\ enqueued' = [f \in Files |-> Cardinality({i \in DOMAIN changedFiles : changedFiles[i] = f})]
    /\ bfsPc' = "while"
    /\ UNCHANGED <<reverseDependencies, changedFiles, affectedFiles, criticalPaths,
                   currentRadius, maxRadius, levelLeft, processed>>
    /\ UNCHANGED <<assessVars, triageVars, pureVars, resolveVars, dbVars>>

\* the loop test holds: levelSize = queue.length; currentRadius++
BeginLevel ==
    /\ bfsPc = "while" /\ whileCondition(queue, currentRadius)
    /\ levelLeft' = Len(queue)
    /\ currentRadius' = currentRadius + 1
    /\ bfsPc' = "for"
    /\ UNCHANGED <<reverseDependencies, changedFiles, queue, visited, affectedFiles,
                   criticalPaths, maxRadius, enqueued, processed>>
    /\ UNCHANGED <<assessVars, triageVars, pureVars, resolveVars, dbVars>>

\* one round of the for loop: queue.shift() and the loop over its dependents
ProcessFile ==
    /\ bfsPc = "for" /\ levelLeft > 0
    /\ LET file == Head(queue)
           fresh == unvisited(reverseDependencies[file], visited)
           freshSet == {fresh[i] : i \in DOMAIN fresh}
           critical == SelectSeq(fresh, LAMBDA d :
                           Cardinality(reverseDependencies[d]) > CriticalFanIn)
       IN /\ queue' = Tail(queue) \o fresh
          /\ visited' = visited \cup freshSet
          /\ affectedFiles' = affectedFiles \cup freshSet
          /\ criticalPaths' = criticalPaths \o
                 [i \in DOMAIN critical |->
                     [file |-> critical[i],
                      dependentCount |-> Cardinality(reverseDependencies[critical[i]]),
                      radius |-> currentRadius]]
          /\ enqueued' = [f \in Files |->
                             enqueued[f] + Cardinality({i \in DOMAIN fresh : fresh[i] = f})]
          /\ processed' = [processed EXCEPT ![file] = @ + 1]
    /\ levelLeft' = levelLeft - 1
    /\ UNCHANGED <<reverseDependencies, changedFiles, currentRadius, maxRadius, bfsPc>>
    /\ UNCHANGED <<assessVars, triageVars, pureVars, resolveVars, dbVars>>

\* after the for loop: if (queue.length > 0) maxRadius = currentRadius
EndLevel ==
    /\ bfsPc = "for" /\ levelLeft = 0
    /\ maxRadius' = IF Len(queue) > 0 THEN currentRadius ELSE maxRadius
    /\ bfsPc' = "while"
    /\ UNCHANGED <<reverseDependencies, changedFiles, queue, visited, affectedFiles,
                   criticalPaths, currentRadius, levelLeft, enqueued, processed>>
    /\ UNCHANGED <<assessVars, triageVars, pureVars, resolveVars, dbVars>>

\* the loop test fails: return { affectedFiles, radius: maxRadius, criticalPaths }
ReturnImpact ==
    /\ bfsPc = "while" /\ ~whileCondition(queue, currentRadius)
    /\ criticalPaths' = SubSeq(sortByDependentCount(criticalPaths), 1,
                               Min(CriticalKept, Len(criticalPaths)))
    /\ bfsPc' = "done"
    /\ UNCHANGED <<reverseDependencies, changedFiles, queue, visited, affectedFiles,
                   currentRadius, maxRadius, levelLeft, enqueued, processed>>
    /\ UNCHANGED <<assessVars, triageVars, pureVars, resolveVars, dbVars>>

NextBfs == EnterImpact \/ BeginLevel \/ ProcessFile \/ EndLevel \/ ReturnImpact

(***************************************************************************)
(* estimateResolutionTime.  The class defines it twice; the second         *)
(* definition replaces the first.  A conflicted file is the list of the    *)
(* head-side line counts of its marker blocks, or unreadable.              *)
(***************************************************************************)
MaxConflicts == 2
MaxMarkers == 4

HeadSizes == {3, 11}

\* first analyzeFileConflicts: type and conflictCount of one file
fileConflictFirst(file) ==
    IF file.readable
    THEN [type |-> "merge-conflict", conflictCount |-> Len(file.heads), changes |-> 0]
    ELSE [type |-> "file-error", conflictCount |-> 0, changes |-> 0]

assessResolutionComplexity(heads) ==
    IF Len(heads) = 0 THEN "none"
    ELSE IF Len(heads) = 1 /\ heads[1] <= 3 THEN "simple"
    ELSE IF Len(heads) <= 3 /\ \A i \in DOMAIN heads : heads[i] <= 10 THEN "moderate"
    ELSE "complex"

\* second analyzeFileConflicts: conflicts and resolutionComplexity of one file
fileConflictSecond(file) ==
    IF file.readable
    THEN [conflicts |-> Len(file.heads),
          resolutionComplexity |-> assessResolutionComplexity(file.heads)]
    ELSE [conflicts |-> 0, resolutionComplexity |-> "unknown"]

\* the tail both definitions share: minutes below 60, else rounded-up hours
renderTime(totalMinutes) ==
    IF totalMinutes < 60
    THEN [minutes |-> totalMinutes, text |-> ToString(totalMinutes) \o " minutes"]
    ELSE LET hours == (totalMinutes + 59) \div 60
         IN [minutes |-> totalMinutes,
             text |-> ToString(hours) \o (IF hours > 1 THEN " hours" ELSE " hour")]

RECURSIVE totalMinutesFirst(_)
totalMinutesFirst(conflicts) ==
    IF conflicts = <<>> THEN 0
    ELSE LET conflict == Head(conflicts)
         IN (CASE conflict.type = "merge-conflict" -> conflict.conflictCount * 15
               [] conflict.type = "function-signature" -> conflict.changes * 30
               [] conflict.type = "api-change" -> conflict.changes * 60
               [] OTHER -> 30)
            + totalMinutesFirst(Tail(conflicts))

estimateResolutionTimeFirst(conflicts) == renderTime(totalMinutesFirst(conflicts))

RECURSIVE totalMinutes(_)
totalMinutes(conflicts) ==
    IF conflicts = <<>> THEN 0
    ELSE LET complexity == Head(conflicts).resolutionComplexity
         IN (CASE complexity = "simple" -> 15
               [] complexity = "moderate" -> 45
               [] complexity = "complex" -> 120
               [] OTHER -> 60)
            + totalMinutes(Tail(conflicts))

estimateResolutionTime(conflicts) == renderTime(totalMinutes(conflicts))

estimatesOf(list) ==
    [live |-> estimateResolutionTime([i \in DOMAIN list |-> fileConflictSecond(list[i])]),
     first |-> estimateResolutionTimeFirst([i \in DOMAIN list |-> fileConflictFirst(list[i])])]

EstimateIdle ==
    /\ conflictList = <<>>
    /\ estimate = estimatesOf(<<>>).live /\ estimateFirst = estimatesOf(<<>>).first

\* one more conflicted file: unreadable, or readable with no complete marker yet
AddConflict(readable) ==
    /\ Len(conflictList) < MaxConflicts
    /\ conflictList' = Append(conflictList, [readable |-> readable, heads |-> <<>>])
    /\ estimate' = estimatesOf(conflictList').live
    /\ estimateFirst' = estimatesOf(conflictList').first
    /\ UNCHANGED <<learnVars, mergeVars, migrationVars, triageVars, pureVars, bfsVars, dbVars>>

\* one more marker block in conflicted file i
AddMarker(i, size) ==
    /\ conflictList[i].readable /\ Len(conflictList[i].heads) < MaxMarkers
    /\ conflictList' = [conflictList EXCEPT ![i].heads = Append(@, size)]
    /\ estimate' = estimatesOf(conflictList').live
    /\ estimateFirst' = estimatesOf(conflictList').first
    /\ UNCHANGED <<learnVars, mergeVars, migrationVars, triageVars, pureVars, bfsVars, dbVars>>

NextResolve ==
    \/ \E readable \in BOOLEAN : AddConflict(readable)
    \/ \E i \in DOMAIN conflictList, size \in HeadSizes : AddMarker(i, size)

(***************************************************************************)
(* learnAdaptationPattern.  The class defines it twice; the second          *)
(* definition replaces the first.  this.db has no storeAdaptationPattern,  *)
(* so the call inside try fails and is swallowed: the Map is the           *)
(* collection.                                                             *)
(***************************************************************************)
MaxClock == 2
MaxLearn == 3

CommitHashes == {"abc123", "def456"}
PatternTypes == {"import", "config"}

\* `pattern_${Date.now()}`
patternId(now) == "pattern_" \o ToString(now)

\* Map.prototype.set that keeps the entry already held under the key
mapSet_KeepFirst(map, key, value) ==
    IF key \in DOMAIN map THEN map
    ELSE [k \in DOMAIN map \cup {key} |-> IF k = key THEN value ELSE map[k]]

\* Map.prototype.set: adds the key, or replaces the value held under it
mapSet(map, key, value) ==
    [k \in DOMAIN map \cup {key} |-> IF k = key THEN value ELSE map[k]]

\* the pattern object learnAdaptationPattern builds and returns
newPattern(now, commitHash, adaptationData) ==
    [id |-> patternId(now), commitHash |-> commitHash, type |-> adaptationData.type,
     targetPattern |-> adaptationData.target_pattern, success |-> adaptationData.success,
     createdAt |-> now]

\* adaptation_data as the learn tool passes it on
AdaptationInputs ==
    [type : PatternTypes, target_pattern : {"load through the fork's loader"},
     success : BOOLEAN]

\* the methods class ForkParityDatabase defines
databaseMethods ==
    {"initializeSchema", "addRepository", "getRepository", "addCommit", "getCommit",
     "addTriageResult", "updateCommitStatus", "getParityDashboard", "getCommitsByStatus",
     "batchUpdateStatus", "vacuum", "backup", "close", "getCommitId"}

\* this.db.storeAdaptationPattern(pattern): calling a method the object does
\* not have throws a TypeError
storeAdaptationPattern(rows, pattern) ==
    IF "storeAdaptationPattern" \in databaseMethods
    THEN [threw |-> FALSE, rows |-> Append(rows, pattern)]
    ELSE [threw |-> TRUE, rows |-> rows]

\* this.db.getAdaptationPatterns()
getAdaptationPatterns(rows) ==
    IF "getAdaptationPatterns" \in databaseMethods
    THEN [threw |-> FALSE, patterns |-> rows]
    ELSE [threw |-> TRUE, patterns |-> <<>>]

RECURSIVE setEach(_, _)
setEach(map, loaded) ==
    IF loaded = <<>> THEN map
    ELSE setEach(mapSet(map, Head(loaded).id, Head(loaded)), Tail(loaded))

\* loadAdaptationPatterns, second definition, on the new Map: a throw inside
\* try leaves the Map as it is
loadAdaptationPatterns(rows) ==
    LET got == getAdaptationPatterns(rows)
    IN IF got.threw THEN [k \in {} |-> {}] ELSE setEach([k \in {} |-> {}], got.patterns)

LearnIdle ==
    /\ clock = 0
    /\ adaptationPatterns = [k \in {} |-> {}]
    /\ learnedLog = <<>>
    /\ patternStore = <<>>

(***************************************************************************)
(* generateConflictResolutions on conflicts whose two sides are import     *)
(* lines.  The class defines mergeImports, calculateResolutionConfidence,  *)
(* findAdaptationPattern and recommendIntegrationApproach twice; the       *)
(* second definitions are the ones called.  The lines hold none of the     *)
(* words the dependencies, config and functions patterns look for, so the  *)
(* imports pattern is the only one of the table that can add a suggestion. *)
(***************************************************************************)
MaxSideLines == 2
MaxMergeConflicts == 2

ImportLines == {"import fs", "import os"}

Sides == UNION {[1..n -> ImportLines] : n \in 0..MaxSideLines}

ImportConflicts == [head : Sides, incoming : Sides, type : {"import"}, file : {"src/app.js"}]

ConflictLists == UNION {[1..n -> ImportConflicts] : n \in 1..MaxMergeConflicts}

RECURSIVE trimStart(_)
trimStart(str) ==
    IF Len(str) > 0 /\ SubSeq(str, 1, 1) = " " THEN trimStart(SubSeq(str, 2, Len(str)))
    ELSE str

RECURSIVE trimEnd(_)
trimEnd(str) ==
    IF Len(str) > 0 /\ SubSeq(str, Len(str), Len(str)) = " "
    THEN trimEnd(SubSeq(str, 1, Len(str) - 1))
    ELSE str

\* String.prototype.trim, for blanks
trim(str) == trimEnd(trimStart(str))

extractImportsFromLines(lines) ==
    SelectSeq(lines, LAMBDA line :
        \/ startsWith(trim(line), "import ")
        \/ startsWith(trim(line), "const ") /\ includes(line, "require("))

\* [...new Set(arr)]: the first occurrence of every element, in order
RECURSIVE dedupFrom(_, _)
dedupFrom(arr, acc) ==
    IF arr = <<>> THEN acc
    ELSE dedupFrom(Tail(arr), IF arrayIncludes(acc, Head(arr)) THEN acc
                              ELSE Append(acc, Head(arr)))

\* Array.prototype.join('\n')
RECURSIVE joinLines(_)
joinLines(parts) ==
    IF parts = <<>> THEN ""
    ELSE IF Len(parts) = 1 THEN parts[1]
    ELSE parts[1] \o "\n" \o joinLines(Tail(parts))

\* mergeImports, second definition
mergeImports(conflict) ==
    LET headImports == extractImportsFromLines(conflict.head)
        incomingImports == extractImportsFromLines(conflict.incoming)
    IN joinLines(dedupFrom(headImports \o incomingImports, <<>>))

\* calculateResolutionConfidence, first definition (shadowed), ten-thousandths
calculateResolutionConfidenceFirst(patternName) ==
    CASE patternName = "imports"      -> 9000
      [] patternName = "dependencies" -> 8000
      [] patternName = "config"       -> 5000
      [] patternName = "functions"    -> 6000
      [] OTHER                        -> 5000

\* calculateResolutionConfidence, second definition
calculateResolutionConfidence(method) ==
    CASE method = "imports"      -> 8000
      [] method = "dependencies" -> 7000
      [] method = "config"       -> 6000
      [] method = "functions"    -> 3000
      [] OTHER                   -> 5000

RECURSIVE linesLength(_)
linesLength(lines) ==
    IF lines = <<>> THEN 0 ELSE Len(Head(lines)) + 1 + linesLength(Tail(lines))

\* where the match of the imports pattern ends in conflict.content, the text
\* "<<<<<<< HEAD\n" head "=======\n" incoming ">>>>>>> branch": after the
\* blank that follows >>>>>>>
matchEnd(conflict) ==
    Len("<<<<<<< HEAD") + 1 + linesLength(conflict.head)
       + Len("=======") + 1 + linesLength(conflict.incoming) + Len(">>>>>>> ")

\* pattern.test(conflict.content) for the imports pattern: the only match
\* starts at index 0, and a regex with flag g searches from lastIndex on,
\* leaves lastIndex at the end of the match and sets it to 0 when it fails
testImports(lastIndex, conflict) ==
    IF lastIndex = 0 THEN [found |-> TRUE, lastIndex |-> matchEnd(conflict)]
    ELSE [found |-> FALSE, lastIndex |-> 0]

\* a property read on a string that strings do not have
ofString(str, name) == Undefined

\* obj.name, undefined where the object has no such property
property(obj, name) == IF name \in DOMAIN obj THEN obj[name] ELSE Undefined

\* matchesPattern: its second argument is what findAdaptationPattern calls
\* pattern, the key of the Map entry; includes(undefined) looks for the text
\* "undefined"
matchesPattern(conflict, pattern) ==
    /\ conflict.type = ofString(pattern, "type")
    /\ includes(conflict.file, ofString(pattern, "filePattern"))

\* findAdaptationPattern, second definition: None for null.  What it returns
\* is the same for whichever entry matches first.
findAdaptationPattern(conflict, map) ==
    IF \E pattern \in DOMAIN map : matchesPattern(conflict, pattern)
    THEN LET data == map[CHOOSE pattern \in DOMAIN map : matchesPattern(conflict, pattern)]
         IN Some([method |-> "adaptation_pattern",
                  description |-> "Similar conflict resolved previously: "
                                     \o property(data, "description"),
                  resolution |-> property(data, "resolution"),
                  confidence |-> IF property(data, "successRate") = Undefined THEN 7000
                                 ELSE data.successRate])
    ELSE None

\* the loop of generateConflictResolutions from conflict number k on
RECURSIVE resolutionsFrom(_, _, _, _, _)
resolutionsFrom(conflicts, k, lastIndex, map, acc) ==
    IF k > Len(conflicts) THEN [resolutions |-> acc, lastIndex |-> lastIndex]
    ELSE LET conflict == conflicts[k]
             tested == testImports(lastIndex, conflict)
             suggestions ==
                 IF tested.found /\ mergeImports(conflict) # ""
                 THEN <<[method |-> "imports",
                         description |-> "Import statement conflicts",
                         resolution |-> mergeImports(conflict),
                         confidence |-> calculateResolutionConfidence("imports")]>>
                 ELSE <<>>
             adaptationSuggestion == findAdaptationPattern(conflict, map)
         IN resolutionsFrom(conflicts, k + 1, tested.lastIndex, map,
                            Append(acc, [suggestions |->
                                suggestions \o (IF adaptationSuggestion = None THEN <<>>
                                                ELSE <<CHOOSE a \in adaptationSuggestion : TRUE>>)]))

\* recommendIntegrationApproach, second definition; 0 / 0 is NaN, for which
\* both comparisons are false
recommendIntegrationApproach(resolved) ==
    LET automatable ==
            Cardinality({k \in DOMAIN resolved :
                \E i \in DOMAIN resolved[k].suggestions :
                    resolved[k].suggestions[i].confidence > 7000})
        total == Len(resolved)
    IN IF total > 0 /\ automatable * 10 > total * 8 THEN "automated"
       ELSE IF total > 0 /\ automatable * 10 > total * 5 THEN "semi_automated"
       ELSE "manual"

generateConflictResolutions(conflicts, lastIndex, map) ==
    LET looped == resolutionsFrom(conflicts, 1, lastIndex, map, <<>>)
    IN [resolutions |-> looped.resolutions, lastIndex |-> looped.lastIndex,
        recommendedApproach |-> recommendIntegrationApproach(looped.resolutions)]

MergeIdle ==
    /\ conflictData = <<>>
    /\ importsLastIndex = 0
    /\ resolutions = None
    /\ recommendedApproach = None

(***************************************************************************)
(* createMigrationPlan.  The class defines it twice; the second definition *)
(* is the one called.  Only plan.phases is modelled; the other fields of   *)
(* the plan are computed after the phases are complete.                    *)
(***************************************************************************)
MaxRelevant == 6
RelevantKept == 5

\* a field read with ?. : absent, or the value
Flags == {None, Some(FALSE), Some(TRUE)}

\* analysisResults, by the fields createMigrationPlan reads
AnalysisResults ==
    [dependencyComplexity : {None, Some("minimal"), Some("high")},
     hasBreakingChanges : Flags,
     hasConflicts : Flags,
     hasSecurityImpact : Flags,
     hasPerformanceImpact : Flags]

\* the arguments: analysisResults (or none), and the number of stored
\* adaptation patterns relevant to commitData
MigrationInputs ==
    [analysisResults : {None} \cup {Some(a) : a \in AnalysisResults},
     relevant : 0..MaxRelevant]

\* x?.flag used as a condition
truthy(flag) == flag = Some(TRUE)

\* `Apply ${pattern.name} adaptation pattern`, one for each of the first
\* RelevantKept relevant patterns
adaptationTasks(relevant) ==
    [k \in 1..Min(relevant, RelevantKept) |-> "Apply adaptation pattern"]

Phase(name, tasks) == [name |-> name, tasks |-> tasks]

\* createMigrationPlan, second definition: analysisResults.dependencyAnalysis
\* raises a TypeError when analysisResults is undefined
createMigrationPlan(analysisResults, relevant) ==
    IF analysisResults = None THEN [threw |-> TRUE, phases |-> <<>>]
    ELSE
    LET a == CHOOSE x \in analysisResults : TRUE
        prepPhase ==
            Phase("Preparation",
                  <<"Create feature branch for integration", "Backup current state",
                    "Review dependency changes">>
                  \o (IF a.dependencyComplexity # Some("minimal")
                      THEN <<"Analyze dependency impact", "Update affected modules">>
                      ELSE <<>>))
        integrationPhase ==
            Phase("Core Integration",
                  (IF truthy(a.hasBreakingChanges)
                   THEN <<"Handle breaking changes", "Update API interfaces">> ELSE <<>>)
                  \o (IF truthy(a.hasConflicts)
                      THEN <<"Resolve merge conflicts", "Apply conflict resolutions">>
                      ELSE <<>>)
                  \o <<"Apply upstream changes", "Run initial tests">>)
        adaptationPhase ==
            Phase("Adaptation",
                  <<"Apply fork-specific adaptations", "Update custom features",
                    "Resolve integration issues">> \o adaptationTasks(relevant))
        testingPhase ==
            Phase("Testing & Validation",
                  <<"Run unit tests", "Run integration tests", "Perform manual testing",
                    "Validate performance">>
                  \o (IF truthy(a.hasSecurityImpact) THEN <<"Security testing">> ELSE <<>>)
                  \o (IF truthy(a.hasPerformanceImpact)
                      THEN <<"Performance benchmarking">> ELSE <<>>))
    IN [threw |-> FALSE,
        phases |-> <<prepPhase, integrationPhase, adaptationPhase, testingPhase>>]

(***************************************************************************)
(* mergeDependencies.  The class defines it twice; the second definition   *)
(* is the one called.  A side is what JSON.parse makes of its lines: an    *)
(* object from package names to version strings, or a SyntaxError.  The    *)
(* order of the keys, which only the layout of the JSON text shows, is     *)
(* left out.                                                               *)
(***************************************************************************)
Packages == {"lodash", "chalk"}
Versions == {"1.2.0", "1.10.0", "^2.0"}

\* what JSON.parse returns: None where it throws
Manifests ==
    {None} \cup {Some(m) : m \in UNION {[ps -> Versions] : ps \in SUBSET Packages}}

DepsConflicts == [head : Manifests, incoming : Manifests]

DigitChars == "0123456789"

isDigit(c) == \E i \in 1..Len(DigitChars) : SubSeq(DigitChars, i, i) = c

digitValue(c) == (CHOOSE i \in 1..Len(DigitChars) : SubSeq(DigitChars, i, i) = c) - 1

\* v.replace(/[^\d.]/g, '')
RECURSIVE digitsAndDots(_)
digitsAndDots(v) ==
    IF Len(v) = 0 THEN ""
    ELSE (IF isDigit(SubSeq(v, 1, 1)) \/ SubSeq(v, 1, 1) = "." THEN SubSeq(v, 1, 1) ELSE "")
         \o digitsAndDots(SubSeq(v, 2, Len(v)))

\* String.prototype.split('.') from the part begun in cur
RECURSIVE splitDots(_, _)
splitDots(str, cur) ==
    IF Len(str) = 0 THEN <<cur>>
    ELSE IF SubSeq(str, 1, 1) = "." THEN <<cur>> \o splitDots(SubSeq(str, 2, Len(str)), "")
    ELSE splitDots(SubSeq(str, 2, Len(str)), cur \o SubSeq(str, 1, 1))

\* Number(part) for a run of digits; Number('') is 0
RECURSIVE numberFrom(_, _)
numberFrom(part, acc) ==
    IF Len(part) = 0 THEN acc
    ELSE numberFrom(SubSeq(part, 2, Len(part)), acc * 10 + digitValue(SubSeq(part, 1, 1)))

versionParts(v) ==
    LET parts == splitDots(digitsAndDots(v), "")
    IN [i \in DOMAIN parts |-> numberFrom(parts[i], 0)]

RECURSIVE comparePartsFrom(_, _, _)
comparePartsFrom(parts1, parts2, i) ==
    IF i > Max(Len(parts1), Len(parts2)) THEN 0
    ELSE LET part1 == IF i <= Len(parts1) THEN parts1[i] ELSE 0
             part2 == IF i <= Len(parts2) THEN parts2[i] ELSE 0
         IN IF part1 > part2 THEN 1
            ELSE IF part1 < part2 THEN -1
            ELSE comparePartsFrom(parts1, parts2, i + 1)

compareVersions(v1, v2) == comparePartsFrom(versionParts(v1), versionParts(v2), 1)

\* { ...headDeps, ...incomingDeps }
spread(headDeps, incomingDeps) ==
    [pkg \in DOMAIN headDeps \cup DOMAIN incomingDeps |->
        IF pkg \in DOMAIN incomingDeps THEN incomingDeps[pkg] ELSE headDeps[pkg]]

\* mergeDependencies, first definition (shadowed)
mergeDependenciesFirst(headDeps, incomingDeps) ==
    [pkg \in DOMAIN headDeps \cup DOMAIN incomingDeps |->
        IF pkg \notin DOMAIN headDeps THEN incomingDeps[pkg]
        ELSE IF pkg \in DOMAIN incomingDeps
                /\ compareVersions(incomingDeps[pkg], headDeps[pkg]) > 0
        THEN incomingDeps[pkg] ELSE headDeps[pkg]]

\* mergeDependencies, second definition: None for null
mergeDependencies(conflict) ==
    IF conflict.head = None \/ conflict.incoming = None THEN None
    ELSE Some(spread(CHOOSE m \in conflict.head : TRUE, CHOOSE m \in conflict.incoming : TRUE))

DepsIdle == depsIn = [head |-> None, incoming |-> None] /\ depsOut = None

\* integrationHelpers.mergeDependencies(conflict)
MergeDependencies ==
    /\ depsOut = None
    /\ \E r \in {mergeDependencies(depsIn)} : depsOut' = Some(r)
    /\ UNCHANGED <<depsIn, migrationIn, migrationPlan, estimateVars, learnVars, mergeVars,
                   triageVars, pureVars, bfsVars, dbVars>>

MigrationIdle == migrationIn = None /\ migrationPlan = None
    /\ DepsIdle

ResolveIdle == EstimateIdle /\ LearnIdle /\ MergeIdle /\ MigrationIdle

\* integrationHelpers.createMigrationPlan(commitData, analysisResults, path)
CreateMigrationPlan ==
    /\ migrationPlan = None
    /\ \E in \in migrationIn :
          migrationPlan' = Some(createMigrationPlan(in.analysisResults, in.relevant))
    /\ UNCHANGED <<migrationIn, depsVars, estimateVars, learnVars, mergeVars,
                   triageVars, pureVars, bfsVars, dbVars>>


\* integrationHelpers.generateConflictResolutions(conflictData)
GenerateConflictResolutions ==
    /\ \E r \in {generateConflictResolutions(conflictData, importsLastIndex,
                                              adaptationPatterns)} :
          /\ resolutions' = Some(r.resolutions)
          /\ recommendedApproach' = Some(r.recommendedApproach)
          /\ importsLastIndex' = r.lastIndex
    /\ UNCHANGED <<conflictData, estimateVars, learnVars, migrationVars,
                   triageVars, pureVars, bfsVars, dbVars>>


\* learnAdaptationPattern(commitHash, adaptationData)
LearnAdaptationPattern(commitHash, adaptationData) ==
    /\ Len(learnedLog) < MaxLearn
    /\ LET pattern == newPattern(clock, commitHash, adaptationData)
       IN /\ adaptationPatterns' = mapSet(adaptationPatterns, pattern.id, pattern)
          /\ patternStore' = storeAdaptationPattern(patternStore, pattern).rows
          /\ learnedLog' = Append(learnedLog, pattern)
    /\ UNCHANGED <<clock, estimateVars, mergeVars, migrationVars, triageVars, pureVars, bfsVars, dbVars>>

\* a millisecond passes between two calls
Tick ==
    /\ clock < MaxClock
    /\ clock' = clock + 1
    /\ UNCHANGED <<adaptationPatterns, learnedLog, patternStore, estimateVars,
                   mergeVars, migrationVars, triageVars, pureVars, bfsVars, dbVars>>

NextLearn ==
    \/ \E commitHash \in CommitHashes, adaptationData \in AdaptationInputs :
          LearnAdaptationPattern(commitHash, adaptationData)
    \/ Tick

\* new IntegrationHelpersSystem(database) over the same store: a new pattern
\* table, a new Map, loadAdaptationPatterns
Construct ==
    /\ adaptationPatterns' = loadAdaptationPatterns(patternStore)
    /\ importsLastIndex' = 0
    /\ UNCHANGED <<clock, learnedLog, patternStore, conflictData, resolutions,
                   recommendedApproach, estimateVars, migrationVars,
                   triageVars, pureVars, bfsVars, dbVars>>

NextRestart == NextLearn \/ Construct

NextSuggest == NextLearn \/ GenerateConflictResolutions

(***************************************************************************)
(* ForkParityDatabase.  A table is the set of its rows; every table has an *)
(* INTEGER PRIMARY KEY AUTOINCREMENT id, so a new row's id is one above    *)
(* the largest id the table ever held.  The source opens the database and  *)
(* sets no PRAGMA foreign_keys: whether the FOREIGN KEY clauses are        *)
(* enforced is the SQLite build's default, fixed when the store is opened. *)
(***************************************************************************)
MaxRepositoryId == 3
MaxCommitId == 2
MaxTriageId == 1
MaxStatusId == 2

Paths == {"/work/a", "/work/b"}
Hashes == {"h1", "h2"}
Statuses == {"pending", "reviewed", "integrated", "skipped", "conflict", "deferred"}
StatusInputs == {"pending", "conflict", "integrated"}
MaxBatchIds == 2
\* a commit id no commit has
unknownCommitId == MaxCommitId + 1
BatchIds == UNION {[1..n -> 1..unknownCommitId] : n \in 0..MaxBatchIds}
\* 'done' is outside the CHECK list of commit_status.status
BatchStatusInputs == {"integrated", "done"}
PriorityInputs == {"critical", "low"}

\* the store as one value
dbNow ==
    [repositories |-> repositories, commits |-> commits,
     triage_results |-> triage_results, commit_status |-> commit_status,
     seqRepositories |-> seqRepositories, seqCommits |-> seqCommits,
     seqTriage |-> seqTriage, seqStatus |-> seqStatus]

ok(db, rowid) == [db |-> db, threw |-> FALSE, lastInsertRowid |-> rowid]
raise(db) == [db |-> db, threw |-> TRUE, lastInsertRowid |-> 0]

\* INSERT OR REPLACE INTO repositories: path is UNIQUE, so the row holding the
\* path is deleted and a row with a new id inserted; with foreign keys
\* enforced the delete fails while a commit references the old row
addRepository(db, fk, path) ==
    LET old == {r \in db.repositories : r.path = path}
        referenced == \E r \in old : \E c \in db.commits : c.repository_id = r.id
        id == db.seqRepositories + 1
    IN IF fk /\ referenced THEN raise(db)
       ELSE ok([db EXCEPT !.repositories = (@ \ old) \cup {[id |-> id, path |-> path]},
                          !.seqRepositories = id], id)

\* SELECT * FROM repositories WHERE path = ?  (the rows; at most one)
getRepository(db, path) == {r \in db.repositories : r.path = path}

\* INSERT OR REPLACE INTO commits: UNIQUE(repository_id, hash)
addCommit(db, fk, repositoryId, hash) ==
    LET old == {c \in db.commits : c.repository_id = repositoryId /\ c.hash = hash}
        referenced == \E c \in old :
                         \/ \E t \in db.triage_results : t.commit_id = c.id
                         \/ \E st \in db.commit_status : st.commit_id = c.id
        parent == \E r \in db.repositories : r.id = repositoryId
        id == db.seqCommits + 1
    IN IF fk /\ (referenced \/ ~parent) THEN raise(db)
       ELSE ok([db EXCEPT !.commits = (@ \ old) \cup
                              {[id |-> id, repository_id |-> repositoryId, hash |-> hash]},
                          !.seqCommits = id], id)

\* SELECT id FROM commits WHERE repository_id = ? AND hash = ?
getCommitId(db, repositoryId, hash) ==
    {c.id : c \in {x \in db.commits : x.repository_id = repositoryId /\ x.hash = hash}}

\* INSERT OR REPLACE INTO triage_results: UNIQUE(commit_id), CHECK(priority IN ...)
addTriageResult(db, fk, commitId, priority) ==
    LET old == {t \in db.triage_results : t.commit_id = commitId}
        parent == \E c \in db.commits : c.id = commitId
        id == db.seqTriage + 1
    IN IF priority \notin Ladder \/ (fk /\ ~parent) THEN raise(db)
       ELSE ok([db EXCEPT !.triage_results = (@ \ old) \cup
                              {[id |-> id, commit_id |-> commitId, priority |-> priority]},
                          !.seqTriage = id], id)

\* INSERT OR REPLACE INTO commit_status: the table has no UNIQUE constraint
\* besides its id, so nothing conflicts and the row is added
updateCommitStatus(db, fk, commitId, status) ==
    LET parent == \E c \in db.commits : c.id = commitId
        id == db.seqStatus + 1
    IN IF status \notin Statuses \/ (fk /\ ~parent) THEN raise(db)
       ELSE ok([db EXCEPT !.commit_status = @ \cup
                              {[id |-> id, commit_id |-> commitId, status |-> status]},
                          !.seqStatus = id], id)

\* the body of the transaction: stmt.run for each id in turn, stopping at the
\* first one that throws
RECURSIVE runEach(_, _, _, _)
runEach(db, fk, ids, status) ==
    IF ids = <<>> THEN ok(db, 0)
    ELSE LET r == updateCommitStatus(db, fk, Head(ids), status)
         IN IF r.threw THEN r ELSE runEach(r.db, fk, Tail(ids), status)

\* batchUpdateStatus: this.db.transaction(fn)(commitIds) commits when fn
\* returns and rolls everything back (sqlite_sequence included) when it throws
batchUpdateStatus(db, fk, commitIds, status) ==
    LET r == runEach(db, fk, commitIds, status)
    IN IF r.threw THEN raise(db) ELSE r

NULL == "NULL"

\* FROM commits c LEFT JOIN triage_results tr ... LEFT JOIN commit_status cs ...
\* WHERE c.repository_id = ?: one row per (commit, triage row, status row),
\* with NULL where a commit has no such row
joined(db, repositoryId) ==
    UNION {
      LET trs == {t.priority : t \in {x \in db.triage_results : x.commit_id = c.id}}
          sts == {st \in db.commit_status : st.commit_id = c.id}
          prs == IF trs = {} THEN {NULL} ELSE trs
          srows == IF sts = {} THEN {[id |-> 0, status |-> NULL]}
                   ELSE {[id |-> st.id, status |-> st.status] : st \in sts}
      IN {[commit |-> c.id, hash |-> c.hash, priority |-> pr,
           status |-> sr.status, status_id |-> sr.id] : pr \in prs, sr \in srows}
      : c \in {x \in db.commits : x.repository_id = repositoryId} }

\* getCommit returns stmt.get(): the first joined row, in no stated order
getCommit(db, repositoryId, hash) ==
    {row \in joined(db, repositoryId) : row.hash = hash}

\* getCommitsByStatus: WHERE c.repository_id = ? AND cs.status = ?
getCommitsByStatus(db, repositoryId, status) ==
    {row \in joined(db, repositoryId) : row.status = status}

\* getParityDashboard(repositoryId).summary
dashboardSummary(db, repositoryId) ==
    LET rows == joined(db, repositoryId)
        count(P(_)) == Cardinality({row \in rows : P(row)})
    IN [total_commits |-> Cardinality(rows),
        integrated_count |-> count(LAMBDA row : row.status = "integrated"),
        skipped_count |-> count(LAMBDA row : row.status = "skipped"),
        pending_count |-> count(LAMBDA row : row.status = "pending"),
        critical_count |-> count(LAMBDA row : row.priority = "critical"),
        high_count |-> count(LAMBDA row : row.priority = "high")]

\* getParityDashboard(repositoryId).actionableItems (JOIN triage_results)
actionableItems(db, repositoryId) ==
    {row \in joined(db, repositoryId) :
        /\ row.priority \in {"critical", "high"}
        /\ row.status \in {NULL, "pending"}}

InitDb ==
    /\ foreignKeys \in BOOLEAN
    /\ repositories = {} /\ commits = {} /\ triage_results = {} /\ commit_status = {}
    /\ seqRepositories = 0 /\ seqCommits = 0 /\ seqTriage = 0 /\ seqStatus = 0
    /\ threw = FALSE
    /\ lastStatus = [id \in 1..MaxCommitId |-> NULL]
    /\ recorded = {}
    /\ decided = {}
    /\ lastBatch = {}

DbIdle ==
    /\ foreignKeys = TRUE
    /\ repositories = {} /\ commits = {} /\ triage_results = {} /\ commit_status = {}
    /\ seqRepositories = 0 /\ seqCommits = 0 /\ seqTriage = 0 /\ seqStatus = 0
    /\ threw = FALSE
    /\ lastStatus = [id \in 1..MaxCommitId |-> NULL]
    /\ recorded = {}
    /\ decided = {}
    /\ lastBatch = {}

install(r) ==
    /\ repositories' = r.db.repositories /\ commits' = r.db.commits
    /\ triage_results' = r.db.triage_results /\ commit_status' = r.db.commit_status
    /\ seqRepositories' = r.db.seqRepositories /\ seqCommits' = r.db.seqCommits
    /\ seqTriage' = r.db.seqTriage /\ seqStatus' = r.db.seqStatus
    /\ threw' = r.threw
    /\ UNCHANGED foreignKeys
    /\ UNCHANGED <<triageVars, pureVars, bfsVars, resolveVars>>

\* initRepository / setup: db.addRepository(path, ...)
AddRepository(path) ==
    /\ seqRepositories < MaxRepositoryId
    /\ install(addRepository(dbNow, foreignKeys, path))
    /\ lastBatch' = {}
    /\ UNCHANGED <<lastStatus, recorded, decided>>

\* a sync: repo = db.getRepository(path); db.addCommit(repo.id, commit)
AddCommit(path, hash) ==
    /\ seqCommits < MaxCommitId
    /\ \E repo \in getRepository(dbNow, path) :
          LET r == addCommit(dbNow, foreignKeys, repo.id, hash)
          IN /\ install(r)
             /\ recorded' = IF r.threw THEN recorded ELSE recorded \cup {<<path, hash>>}
    /\ lastBatch' = {}
    /\ UNCHANGED <<lastStatus, decided>>

\* db.addTriageResult(db.getCommitId(repo.id, hash), triage)
AddTriageResult(path, hash, priority) ==
    /\ seqTriage < MaxTriageId
    /\ \E repo \in getRepository(dbNow, path) :
       \E commitId \in getCommitId(dbNow, repo.id, hash) :
          install(addTriageResult(dbNow, foreignKeys, commitId, priority))
    /\ lastBatch' = {}
    /\ UNCHANGED <<lastStatus, recorded, decided>>

\* db.updateCommitStatus(db.getCommitId(repo.id, hash), status, metadata)
UpdateCommitStatus(path, hash, status) ==
    /\ seqStatus < MaxStatusId
    /\ \E repo \in getRepository(dbNow, path) :
       \E commitId \in getCommitId(dbNow, repo.id, hash) :
          LET r == updateCommitStatus(dbNow, foreignKeys, commitId, status)
          IN /\ install(r)
             /\ lastStatus' = IF r.threw THEN lastStatus
                              ELSE [lastStatus EXCEPT ![commitId] = status]
             /\ decided' = IF r.threw THEN decided ELSE decided \cup {<<path, hash>>}
    /\ lastBatch' = {}
    /\ UNCHANGED recorded

\* db.batchUpdateStatus(commitIds, status, metadata)
BatchUpdateStatus(commitIds, status) ==
    /\ seqStatus + Len(commitIds) <= MaxStatusId
    /\ \E r \in {batchUpdateStatus(dbNow, foreignKeys, commitIds, status)} :
          LET ids == {commitIds[k] : k \in DOMAIN commitIds}
          IN /\ install(r)
             /\ lastStatus' = IF r.threw THEN lastStatus
                              ELSE [id \in DOMAIN lastStatus |->
                                       IF id \in ids THEN status ELSE lastStatus[id]]
             /\ decided' = IF r.threw THEN decided
                           ELSE decided \cup
                                {<<repo.path, c.hash>> :
                                    <<repo, c>> \in
                                       {pair \in repositories \X commits :
                                           /\ pair[2].id \in ids
                                           /\ pair[2].repository_id = pair[1].id}}
             /\ lastBatch' = {[ids |-> commitIds, status |-> status, threw |-> r.threw,
                           before |-> commit_status]}
    /\ UNCHANGED recorded

NextDb ==
    \/ \E commitIds \in BatchIds, status \in BatchStatusInputs :
          BatchUpdateStatus(commitIds, status)
    \/ \E path \in Paths : AddRepository(path)
    \/ \E path \in Paths, hash \in Hashes : AddCommit(path, hash)
    \/ \E path \in Paths, hash \in Hashes, priority \in PriorityInputs :
          AddTriageResult(path, hash, priority)
    \/ \E path \in Paths, hash \in Hashes, status \in StatusInputs :
          UpdateCommitStatus(path, hash, status)

(***************************************************************************)
(* The specifications: one per component, the other components at rest.    *)
(***************************************************************************)
InitTriage == TriageIdle /\ PureIdle /\ BfsIdle /\ ResolveIdle /\ DbIdle

NextTriage ==
    \/ \E i \in PoolIndex : AnalyzeCommit(i)
    \/ \E batch \in Batches : BatchAnalyze(batch)

SpecTriage == InitTriage /\ [][NextTriage]_vars

SpecPlan == InitTriage /\ [][NextPlan]_vars

InitBuilt ==
    /\ commitIn \in {Some(commitData) : commitData \in BuiltCommits}
    /\ analysis = None
    /\ patterns = patternsInit /\ triageOut = <<>> /\ PlanIdle
    /\ PureIdle /\ BfsIdle /\ ResolveIdle /\ DbIdle

SpecBuilt == InitBuilt /\ [][AnalyzeBuilt]_vars

InitRisk ==
    /\ riskIn \in RiskInputs /\ riskOut = None
    /\ effortIn = [fileCount |-> 0, lineCount |-> 0] /\ effortOut = NotCalled
    /\ adjustIn = None /\ adjustOut = None
    /\ TriageIdle /\ BfsIdle /\ ResolveIdle /\ DbIdle

SpecRisk == InitRisk /\ [][CallConflictRisk]_vars

InitEffort ==
    /\ effortIn \in [fileCount : 0..MaxFileCount, lineCount : 0..MaxLineCount]
    /\ effortOut = NotCalled
    /\ riskIn = [filesChanged |-> <<>>, impactAreas |-> <<>>] /\ riskOut = None
    /\ adjustIn = None /\ adjustOut = None
    /\ TriageIdle /\ BfsIdle /\ ResolveIdle /\ DbIdle

NextEffort == CallEstimateEffort \/ MoreFiles \/ MoreLines

SpecEffort == InitEffort /\ [][NextEffort]_vars

InitAdjust ==
    /\ adjustIn \in {Some(in) : in \in AdjustInputs} /\ adjustOut = None
    /\ riskIn = [filesChanged |-> <<>>, impactAreas |-> <<>>] /\ riskOut = None
    /\ effortIn = [fileCount |-> 0, lineCount |-> 0] /\ effortOut = NotCalled
    /\ TriageIdle /\ BfsIdle /\ ResolveIdle /\ DbIdle

SpecAdjust == InitAdjust /\ [][CallAdjustPriority]_vars

InitImpact == InitBfs /\ TriageIdle /\ PureIdle /\ ResolveIdle /\ DbIdle

\* the call is one synchronous loop: it keeps running until it returns
\* the analyses of one commit over one working tree
InitAssess ==
    /\ assessIn \in {Some(c) : c \in AssessInputs}
    /\ securityOut = None /\ breakingOut = None /\ performanceOut = None
    /\ reverseDependencies = [f \in Files |-> {}] /\ changedFiles = <<>>
    /\ queue = <<>> /\ visited = {} /\ affectedFiles = {} /\ criticalPaths = <<>>
    /\ currentRadius = 0 /\ maxRadius = 0 /\ levelLeft = 0 /\ bfsPc = "done"
    /\ enqueued = [f \in Files |-> 0] /\ processed = [f \in Files |-> 0]
    /\ TriageIdle /\ PureIdle /\ ResolveIdle /\ DbIdle

SpecAssess == InitAssess /\ [][NextAssess]_vars

SpecImpact == InitImpact /\ [][NextBfs]_vars /\ WF_vars(NextBfs)

InitResolve == ResolveIdle /\ TriageIdle /\ PureIdle /\ BfsIdle /\ DbIdle

SpecResolve == InitResolve /\ [][NextResolve]_vars

SpecLearn == InitResolve /\ [][NextLearn]_vars

InitMerge ==
    /\ conflictData \in ConflictLists
    /\ importsLastIndex = 0 /\ resolutions = None /\ recommendedApproach = None
    /\ EstimateIdle /\ LearnIdle /\ MigrationIdle
    /\ TriageIdle /\ PureIdle /\ BfsIdle /\ DbIdle

SpecMerge == InitMerge /\ [][GenerateConflictResolutions]_vars

\* learn calls, and components started over the same store
SpecRestart == InitResolve /\ [][NextRestart]_vars

\* one conflict of each type and file, with or without a type
SuggestConflictLists ==
    {<<[head |-> <<"import fs">>, incoming |-> <<"import os">>, type |-> t, file |-> f]>> :
        t \in {Undefined} \cup PatternTypes, f \in {"src/app.js", "lib/undefined.js"}}

InitSuggest ==
    /\ conflictData \in SuggestConflictLists
    /\ importsLastIndex = 0 /\ resolutions = None /\ recommendedApproach = None
    /\ EstimateIdle /\ LearnIdle /\ MigrationIdle
    /\ TriageIdle /\ PureIdle /\ BfsIdle /\ DbIdle

\* learn calls, and resolutions generated between them
SpecSuggest == InitSuggest /\ [][NextSuggest]_vars

InitMigration ==
    /\ migrationIn \in {Some(in) : in \in MigrationInputs}
    /\ migrationPlan = None /\ DepsIdle
    /\ EstimateIdle /\ LearnIdle /\ MergeIdle
    /\ TriageIdle /\ PureIdle /\ BfsIdle /\ DbIdle

SpecMigration == InitMigration /\ [][CreateMigrationPlan]_vars

InitDeps ==
    /\ depsIn \in DepsConflicts /\ depsOut = None
    /\ migrationIn = None /\ migrationPlan = None
    /\ EstimateIdle /\ LearnIdle /\ MergeIdle
    /\ TriageIdle /\ PureIdle /\ BfsIdle /\ DbIdle

SpecDeps == InitDeps /\ [][MergeDependencies]_vars

\* the store, used by any sequence of calls
Init == InitDb /\ TriageIdle /\ PureIdle /\ BfsIdle /\ ResolveIdle

Next == NextDb

Spec == Init /\ [][Next]_vars

(***************************************************************************)
(* Properties of SmartTriageSystem.                                        *)
(***************************************************************************)
\* what a newly constructed SmartTriageSystem returns for each pool commit
Reference == [i \in PoolIndex |-> analyzeCommit(patternsInit, CommitPool[i]).triage]

\* C1: analyzeCommit is deterministic.  Whatever was analysed before, alone
\* or in a batch, and whatever else is in the batch and in whatever order,
\* each result returned equals the result a newly constructed system returns
\* for the same commit, and the pattern table is the one it was built with.
C1_Deterministic ==
    /\ \A k \in DOMAIN triageOut : triageOut[k].triage = Reference[triageOut[k].commit]
    /\ patterns = patternsInit

\* a batch that analysed the bug fix touching a login file and then another
\* bug fix, whose category comes from the same pattern table entry
C1_Witness ==
    /\ Len(triageOut) = 2
    /\ triageOut[1].commit = 7 /\ triageOut[1].triage.priority = "critical"
    /\ triageOut[2].commit = 10 /\ triageOut[2].triage.category = "bugfix"
    /\ triageOut[2].triage.priority = "high"

\* the ladder from its lowest rung to its highest
Rungs == <<"low", "medium", "high", "critical">>

rung(priority) == CHOOSE i \in DOMAIN Rungs : Rungs[i] = priority

\* C2: escalation and de-escalation never leave the ladder low, medium,
\* high, critical: critical escalates to critical, low de-escalates to low,
\* every other value moves exactly one step, and every priority analyzeCommit
\* returns is one of the four values.
C2_LadderClosed ==
    /\ escalatePriority("critical") = "critical"
    /\ deescalatePriority("low") = "low"
    /\ \A i \in DOMAIN Rungs :
          /\ escalatePriority(Rungs[i]) \in Ladder
          /\ deescalatePriority(Rungs[i]) \in Ladder
          /\ Rungs[i] # "critical" => rung(escalatePriority(Rungs[i])) = i + 1
          /\ Rungs[i] # "low" => rung(deescalatePriority(Rungs[i])) = i - 1
    /\ \A k \in DOMAIN triageOut : triageOut[k].triage.priority \in Ladder

\* a critical security commit whose priority was escalated at the top of the
\* ladder, and an empty commit de-escalated at the bottom of it
C2_Witness ==
    /\ Len(triageOut) = 2
    /\ triageOut[1].commit = 1 /\ triageOut[1].triage.priority = "critical"
    /\ arrayIncludes(triageOut[1].triage.impactAreas, "auth")
    /\ triageOut[2].commit = 2 /\ triageOut[2].triage.priority = "low"
    /\ triageOut[2].triage.effortEstimate = "trivial"

\* every additive factor of calculateConflictRisk fires
allFactors(in) ==
    /\ arrayIncludes(in.impactAreas, "core") /\ arrayIncludes(in.impactAreas, "api")
    /\ arrayIncludes(in.impactAreas, "database")
    /\ Len(in.filesChanged) > 0 /\ hasCommonFiles(in.filesChanged)

\* C3: for every changed-file list and every set of impact areas the risk is
\* within [0, 1] (0..10000 ten-thousandths), and it is exactly 1 when all the
\* additive factors fire together.
C3_RiskClamped ==
    \A risk \in riskOut :
        /\ 0 <= risk /\ risk <= 10000
        /\ allFactors(riskIn) => risk = 10000

\* the call returned for a commit on which every factor fires at its largest
C3_Witness ==
    /\ riskOut = Some(10000)
    /\ allFactors(riskIn) /\ Len(riskIn.filesChanged) >= 15

\* position of a bucket in trivial < small < medium < large < xl
bucketRank(effort) ==
    CASE effort = "trivial" -> 1 [] effort = "small" -> 2 [] effort = "medium" -> 3
      [] effort = "large" -> 4 [] effort = "xl" -> 5 [] OTHER -> 0

\* C4: effort bucket selection is monotonic: one more file with the lines
\* fixed, or one more line with the files fixed, never moves estimateEffort
\* to a smaller bucket.
C4_EffortMonotonic ==
    [][effortOut # NotCalled => bucketRank(effortOut') >= bucketRank(effortOut)]_vars

\* the estimate of a commit that has just outgrown the largest ceiling
C4_Witness ==
    /\ effortOut = "xl"
    /\ effortIn.fileCount = 31 /\ effortIn.lineCount = 10

(***************************************************************************)
(* Properties of calculateDependencyImpact.                                *)
(***************************************************************************)
\* the files within k reverse-dependency steps of the changed files
RECURSIVE within(_)
within(k) ==
    IF k = 0 THEN {changedFiles[i] : i \in DOMAIN changedFiles}
    ELSE LET near == within(k - 1)
         IN near \cup UNION {reverseDependencies[f] : f \in near}

\* the shortest distances that occur, from 1 to the cap
distancesReached == {k \in 1..DepthCap : within(k) # within(k - 1)}

\* C5: the traversal terminates on every graph, cycles and self-imports
\* included, and each file enters the queue at most once and is processed at
\* most once.
C5_Terminates ==
    /\ <>(bfsPc = "done")
    /\ [](\A f \in Files : enqueued[f] <= 1 /\ processed[f] <= 1)

\* a finished traversal of a graph in which a visited file imports itself
\* and lies on an import cycle
C5_Witness ==
    /\ bfsPc = "done"
    /\ \E f \in visited, g \in visited :
          /\ f \in reverseDependencies[f]
          /\ f # g /\ g \in reverseDependencies[f] /\ f \in within(0)
          /\ \E h \in visited : h \in reverseDependencies[g] /\ f \in reverseDependencies[h]
    /\ \A f \in visited : processed[f] = 1

\* C6: the traversal never goes beyond depth 5: affectedFiles is exactly the
\* files, not among the changed ones, at distance 1 to 5, and the radius is
\* the greatest such distance, 0 when no file is affected.
C6_DepthCapped ==
    bfsPc = "done" =>
        /\ affectedFiles = within(DepthCap) \ within(0)
        /\ maxRadius <= DepthCap
        /\ maxRadius = IF distancesReached = {} THEN 0
                       ELSE CHOOSE k \in distancesReached : \A j \in distancesReached : j <= k

\* a finished traversal that stopped at the cap with a file beyond it
C6_Witness ==
    /\ bfsPc = "done" /\ maxRadius = DepthCap
    /\ within(DepthCap + 1) # within(DepthCap)
    /\ Cardinality(affectedFiles) = DepthCap

(***************************************************************************)
(* Properties of estimateResolutionTime.                                   *)
(***************************************************************************)
\* the number a string of decimal digits writes
RECURSIVE decimal(_)
decimal(digits) ==
    IF Len(digits) = 0 THEN 0
    ELSE decimal(SubSeq(digits, 1, Len(digits) - 1)) * 10
         + (CHOOSE d \in 0..9 : ToString(d) = SubSeq(digits, Len(digits), Len(digits)))

\* the duration a rendered estimate states, in minutes: "N minutes", "N hour(s)"
statedMinutes(text) ==
    LET space == CHOOSE i \in 1..Len(text) : SubSeq(text, i, i) = " "
        count == decimal(SubSeq(text, 1, space - 1))
    IN IF SubSeq(text, space + 1, Len(text)) = "minutes" THEN count ELSE count * 60

\* C7: the resolution-time estimate is never negative and never decreases
\* when a conflict is added to the list or a conflict's marker count is
\* raised, as a total in minutes and as the rendered duration.
C7_EstimateMonotone ==
    [][/\ estimate'.minutes >= 0
       /\ estimate'.minutes >= estimate.minutes
       /\ statedMinutes(estimate'.text) >= statedMinutes(estimate.text)]_vars

(***************************************************************************)
(* Properties of ForkParityDatabase.                                       *)
(***************************************************************************)
commitsOf(repositoryId) == {c \in commits : c.repository_id = repositoryId}

statusRowsOf(commitId) == {st \in commit_status : st.commit_id = commitId}

\* C8: a status can be overwritten: a commit whose status was set, and set
\* again, has exactly one status record, and getCommit, getCommitsByStatus
\* and the dashboard counts report the status set last and no earlier one.
C8_StatusOverwritten ==
    \A c \in commits :
        lastStatus[c.id] # NULL =>
            /\ Cardinality(statusRowsOf(c.id)) = 1
            /\ \A row \in getCommit(dbNow, c.repository_id, c.hash) :
                  row.status = lastStatus[c.id]
            /\ \A status \in Statuses :
                  (\E row \in getCommitsByStatus(dbNow, c.repository_id, status) :
                      row.commit = c.id) <=> status = lastStatus[c.id]
            /\ LET summary == dashboardSummary(dbNow, c.repository_id)
                   having(status) ==
                       Cardinality({x \in commitsOf(c.repository_id) : lastStatus[x.id] = status})
               IN /\ summary.total_commits = Cardinality(commitsOf(c.repository_id))
                  /\ summary.integrated_count = having("integrated")
                  /\ summary.skipped_count = having("skipped")
                  /\ summary.pending_count = having("pending")

\* C9: a commit with no status row is pending: getCommitsByStatus(repository,
\* 'pending') returns it and the dashboard's pending_count counts it, like a
\* commit whose status row says pending.
C9_ImplicitPending ==
    \A r \in repositories :
        LET noRow == {c \in commitsOf(r.id) : statusRowsOf(c.id) = {}}
            explicit == {c \in commitsOf(r.id) :
                            \E st \in statusRowsOf(c.id) : st.status = "pending"}
        IN /\ \A c \in noRow :
                 \E row \in getCommitsByStatus(dbNow, r.id, "pending") : row.commit = c.id
           /\ dashboardSummary(dbNow, r.id).pending_count
                 >= Cardinality(noRow \cup explicit)

C12_PatternsAppendOnly ==
    /\ \A i \in DOMAIN learnedLog, j \in DOMAIN learnedLog :
          learnedLog[i].id = learnedLog[j].id => i = j
    /\ Cardinality(DOMAIN adaptationPatterns) = Len(learnedLog)
    /\ \A i \in DOMAIN learnedLog :
          /\ learnedLog[i].id \in DOMAIN adaptationPatterns
          /\ adaptationPatterns[learnedLog[i].id] = learnedLog[i]

\* the commit_status rows are what they were before a batch that threw
batchRolledBack ==
    \A b \in lastBatch : b.threw => commit_status = b.before

\* after a batch that returned, a read of a commit of the batch gives the
\* batch's status
batchReadsNew ==
    \A b \in lastBatch :
        ~b.threw =>
            \A k \in DOMAIN b.ids :
                \A c \in {x \in commits : x.id = b.ids[k]} :
                    \A row \in getCommit(dbNow, c.repository_id, c.hash) :
                        row.status = b.status

\* C13: batchUpdateStatus is all-or-nothing: when the write for one commit id
\* of the batch fails, no commit's status has changed; when the call returns
\* normally, every commit of the batch reads the new status.
C13_BatchAllOrNothing == batchRolledBack /\ batchReadsNew

(***************************************************************************)
(* Properties of generateIntegrationPlan.                                  *)
(***************************************************************************)
\* the final priority analyzeCommit gives each commit of PlanPool
planPriority ==
    [i \in DOMAIN PlanPool |-> analyzeCommit(patternsInit, PlanPool[i]).triage.priority]

\* positions of the input commits having the priority, in input order
positionsOf(priority) ==
    SelectSeq([k \in DOMAIN planCommits |-> k],
              LAMBDA k : planPriority[planCommits[k]] = priority)

firstOf(seq, n) == SubSeq(seq, 1, Min(n, Len(seq)))
restOf(seq, n) == SubSeq(seq, Min(n, Len(seq)) + 1, Len(seq))
atOf(bucket) == [k \in DOMAIN bucket |-> bucket[k].at]
timesIn(bucket, position) == Cardinality({k \in DOMAIN bucket : bucket[k].at = position})

\* C14: generateIntegrationPlan puts every input commit in exactly one
\* bucket: immediate is all critical commits then the first 3 high ones,
\* nextSprint the remaining high ones then the first 5 medium ones, backlog
\* the remaining medium ones then all low ones; no commit is dropped or
\* listed twice and the bucket sizes sum to the number of input commits.
C14_PlanPartitions ==
    /\ atOf(plan.immediate) = positionsOf("critical") \o firstOf(positionsOf("high"), 3)
    /\ atOf(plan.nextSprint) = restOf(positionsOf("high"), 3) \o firstOf(positionsOf("medium"), 5)
    /\ atOf(plan.backlog) = restOf(positionsOf("medium"), 5) \o positionsOf("low")
    /\ \A position \in DOMAIN planCommits :
          timesIn(plan.immediate, position) + timesIn(plan.nextSprint, position)
             + timesIn(plan.backlog, position) = 1
    /\ Len(plan.immediate) + Len(plan.nextSprint) + Len(plan.backlog) = Len(planCommits)

\* a plan of six commits with four high ones has been made: the fourth high
\* commit is in nextSprint
C14_Witness ==
    /\ Len(planCommits) = MaxPlanLen
    /\ Len(positionsOf("high")) = 4
    /\ Len(plan.immediate) = 4
    /\ \E k \in DOMAIN plan.nextSprint : plan.nextSprint[k].triage.priority = "high"

(***************************************************************************)
(* Properties of one analyzeCommit call.                                   *)
(***************************************************************************)
\* the commitData of the call made, and its triage when it returned
called == {c \in commitIn : analysis # None}
returned == UNION {a.triage : a \in analysis}
raised == \E a \in analysis : a.threw

hasKeywordOf(message, category) ==
    \E m \in message : matchCount(toLowerCase(m), category) > 0

liesUnder(filesChanged, dir) ==
    \E files \in filesChanged :
        files # <<>> /\ \A k \in DOMAIN files : startsWith(files[k], dir)

\* C15: a commit whose message contains a security keyword and whose files
\* lie under src/auth/ is classified security, with final priority critical
\* and auth among its impact areas, whatever other keywords the message
\* matches and whatever its effort and conflict risk.
C15_SecurityIsCritical ==
    \A c \in called :
        (hasKeywordOf(c.message, "security") /\ liesUnder(c.filesChanged, "src/auth/")) =>
            /\ ~raised
            /\ \A t \in returned :
                  /\ t.category = "security"
                  /\ t.priority = "critical"
                  /\ arrayIncludes(t.impactAreas, "auth")

\* the commit of the example has been analyzed, and so has one whose message
\* also reaches confidence 0.9 for docs, with a conflict risk above 0.7
C15_Witness ==
    \E c \in called : \E t \in returned :
        /\ c.message = Some("docs: readme for auth")
        /\ c.filesChanged = Some(SubSeq(AuthFiles, 3, 3))
        /\ t.category = "security" /\ t.priority = "critical"
        /\ t.conflictRisk > 7000
        /\ t.effortEstimate = "trivial"

\* C16: analyzeCommit on a commit with an empty message and no changed files,
\* with insertions, deletions and filesChanged present or absent, returns
\* without raising: category chore, priority low, confidence 0.3.
C16_EmptyCommitIsChore ==
    \A c \in called :
        (c.message = Some("") /\ c.filesChanged \in {None, Some(<<>>)}) =>
            /\ ~raised
            /\ \A t \in returned :
                  /\ t.category = "chore"
                  /\ t.priority = "low"
                  /\ t.confidence = 3000

\* the empty commit with every optional field absent has been analyzed, and
\* the call returned
C16_Witness ==
    \E c \in called : \E t \in returned :
        /\ c.message = Some("") /\ c.filesChanged = None
        /\ c.insertions = None /\ c.deletions = None
        /\ t.category = "chore" /\ t.effortEstimate = "trivial"

\* C17: a commit whose only changed file is README.md, with 5 insertions and
\* 0 deletions, is classified docs with effort trivial and priority low,
\* whatever its message is (the scenario names none).
C17_ReadmeIsDocs ==
    \A c \in called :
        (c.filesChanged = Some(<<"README.md">>) /\ c.insertions = Some(5)
            /\ c.deletions = Some(0)) =>
            /\ ~raised
            /\ \A t \in returned :
                  /\ t.category = "docs"
                  /\ t.effortEstimate = "trivial"
                  /\ t.priority = "low"

(***************************************************************************)
(* Properties of the import resolution.                                    *)
(***************************************************************************)
\* String.prototype.split('\n')
RECURSIVE splitLinesFrom(_, _, _)
splitLinesFrom(str, i, current) ==
    IF i > Len(str) THEN <<current>>
    ELSE IF SubSeq(str, i, i) = "\n" THEN <<current>> \o splitLinesFrom(str, i + 1, "")
    ELSE splitLinesFrom(str, i + 1, current \o SubSeq(str, i, i))

linesOf(seq) == {seq[k] : k \in DOMAIN seq}

\* the lines of the resolution are the import lines of the two sides, each once
isDedupUnion(resolution, conflict) ==
    LET lines == splitLinesFrom(resolution, 1, "")
    IN /\ linesOf(lines) = linesOf(conflict.head) \cup linesOf(conflict.incoming)
       /\ \A i \in DOMAIN lines, j \in DOMAIN lines : lines[i] = lines[j] => i = j

\* C18: for a conflict whose two sides are import statements, the import
\* resolution is the deduplicated union of the import lines of both sides,
\* reported with confidence 0.9 and as a resolution (a resolver that leaves
\* the conflict to manual review reports none).
C18_ImportsMerged ==
    \A rs \in resolutions :
        \A k \in DOMAIN conflictData :
            (conflictData[k].head # <<>> /\ conflictData[k].incoming # <<>>) =>
                /\ Len(rs[k].suggestions) = 1
                /\ \A i \in DOMAIN rs[k].suggestions :
                      /\ rs[k].suggestions[i].method = "imports"
                      /\ isDedupUnion(rs[k].suggestions[i].resolution, conflictData[k])
                      /\ rs[k].suggestions[i].confidence = 9000

\* the part of C18 the second definitions keep: the first conflict of the
\* first call gets the deduplicated union
firstResolutionIsUnion ==
    \A rs \in resolutions :
        \A i \in DOMAIN rs[1].suggestions :
            isDedupUnion(rs[1].suggestions[i].resolution, conflictData[1])

(***************************************************************************)
(* Properties of createMigrationPlan.                                      *)
(***************************************************************************)
\* C19: for every combination of analysis results, none at all included,
\* createMigrationPlan returns a plan of exactly four phases named
\* Preparation, Integration, Testing and Deployment, in this order.
C19_FourPhases ==
    \A p \in migrationPlan :
        /\ ~p.threw
        /\ [k \in DOMAIN p.phases |-> p.phases[k].name]
              = <<"Preparation", "Integration", "Testing", "Deployment">>

\* what the second definition keeps: four phases with the same names for all
\* analysis results that are an object
fourFixedPhases ==
    \A p \in migrationPlan :
        ~p.threw =>
            [k \in DOMAIN p.phases |-> p.phases[k].name]
               = <<"Preparation", "Core Integration", "Adaptation", "Testing & Validation">>

(***************************************************************************)
(* Properties of adjustPriority.                                           *)
(***************************************************************************)
up(r) == Min(r + 1, Len(Rungs))
down(r) == IF r > 1 THEN r - 1 ELSE r

\* the priority after the three steps as the ladder position
stepsOf(in) ==
    LET r0 == rung(in.basePriority)
        r1 == IF "core" \in linesOf(in.impactAreas) \/ "auth" \in linesOf(in.impactAreas)
              THEN up(r0) ELSE r0
        r2 == IF in.conflictRisk > 7000 THEN up(r1) ELSE r1
    IN IF in.effortEstimate = "trivial" /\ r2 # Len(Rungs) THEN down(r2) ELSE r2

\* C20: adjustPriority applies, in this order, one escalation if the impact
\* areas include core or auth, one more if conflictRisk > 0.7, then one
\* de-escalation if the effort is trivial and the priority at that point is
\* not critical; the result is at most two ladder steps above and at most one
\* below the priority given.
C20_AdjustSteps ==
    \A in \in adjustIn : \A out \in adjustOut :
        /\ out = Rungs[stepsOf(in)]
        /\ rung(out) - rung(in.basePriority) <= 2
        /\ rung(in.basePriority) - rung(out) <= 1

\* a call where the order of the steps shows: low, core, trivial gives low
\* (escalated to medium, then de-escalated), and a call two steps up
C20_Witness ==
    \E in \in adjustIn : \E out \in adjustOut :
        /\ in.basePriority = "low" /\ in.impactAreas = <<"core">>
        /\ in.conflictRisk = 1000 /\ in.effortEstimate = "trivial"
        /\ out = "low"

(***************************************************************************)
(* Properties of the reasoning string.                                     *)
(***************************************************************************)
\* the priority the pattern table lists for the category
basePriorityOf(category) == patternsInit[category].priority

\* C21: the reasoning holds a "priority adjusted from X to Y" clause exactly
\* when the final priority differs from the priority the pattern table lists
\* for the chosen category, X being that priority and Y the final one.
C21_AdjustedClause ==
    \A c \in called : \A t \in returned :
        /\ includes(t.reasoning, "priority adjusted from ")
              <=> t.priority # basePriorityOf(t.category)
        /\ t.priority # basePriorityOf(t.category) =>
              includes(t.reasoning, "priority adjusted from " \o basePriorityOf(t.category)
                                       \o " to " \o t.priority)

(***************************************************************************)
(* Properties of the security, breaking-change and performance analyses.   *)
(***************************************************************************)
severityRank(level) ==
    CASE level = "critical" -> 4 [] level = "high" -> 3 [] level = "medium" -> 2
      [] level = "low" -> 1 [] OTHER -> 0

\* the highest severity among the findings; "low" where there is none
highestSeverity(findings) ==
    IF \E i \in DOMAIN findings : severityRank(findings[i].level) > 1
    THEN LET top == CHOOSE i \in DOMAIN findings :
                        \A j \in DOMAIN findings :
                            severityRank(findings[j].level) <= severityRank(findings[i].level)
         IN findings[top].level
    ELSE "low"

\* C22: the overall security risk is the highest severity among the findings,
\* except that more than 3 findings none of which is high or critical make it
\* medium.
C22_RiskIsHighestSeverity ==
    \A r \in securityOut :
        IF /\ Len(r.vulnerabilities) > 3
           /\ ~someLevel(r.vulnerabilities, "high")
           /\ ~someLevel(r.vulnerabilities, "critical")
        THEN r.securityRisk = "medium"
        ELSE r.securityRisk = highestSeverity(r.vulnerabilities)

\* a critical file followed by a high one
C22_Witness ==
    \E c \in assessIn : \E r \in securityOut :
        /\ c.filesChanged = <<"src/run.js", "src/session.js">>
        /\ \A i \in DOMAIN c.filesChanged : c.tree[c.filesChanged[i]] = "ok"
        /\ r.securityRisk = "critical"

\* more than 3 findings, all medium
manyMediumFindings ==
    \E r \in securityOut :
        /\ Len(r.vulnerabilities) > 3
        /\ \A i \in DOMAIN r.vulnerabilities : r.vulnerabilities[i].level = "medium"
        /\ r.securityRisk = "medium"

\* C23: a performance finding of impact high, or a complexity increase of 3,
\* gives requiresPerformanceTest = true and the verdict negative.
C23_HighImpactIsNegative ==
    \A r \in performanceOut :
        someLevel(r.hotspots, "high") \/ r.complexityIncrease = 3
            => r.requiresPerformanceTest /\ r.performanceImpact = "negative"

\* C24: the overall breaking-change severity is the highest severity among
\* the findings: critical exactly when one is critical, otherwise high exactly
\* when one is high, otherwise medium exactly when one is medium.
C24_SeverityIsHighest ==
    \A r \in breakingOut :
        /\ r.severity = "critical" <=> someLevel(r.breakingChanges, "critical")
        /\ ~someLevel(r.breakingChanges, "critical") =>
              /\ r.severity = "high" <=> someLevel(r.breakingChanges, "high")
              /\ ~someLevel(r.breakingChanges, "high") =>
                    (r.severity = "medium" <=> someLevel(r.breakingChanges, "medium"))

\* the commit without the changed files that cannot be read
readable(commitData) ==
    [commitData EXCEPT
        !.filesChanged = filterSeq(@, [q \in namesOf(@) |-> commitData.tree[q] # "unreadable"])]

\* the findings a content scan made
fromContent(findings) ==
    filterSeq(findings, [f \in {findings[i] : i \in DOMAIN findings} |-> f.file # Undefined])

\* C25: a changed file that cannot be read fails none of the three analyses,
\* and the findings from the content of the other changed files are those of
\* the commit without that file.
C25_UnreadableFileSkipped ==
    \A c \in assessIn :
        /\ \A r \in securityOut :
              /\ r.securityRisk # "unknown"
              /\ fromContent(r.vulnerabilities)
                    = fromContent(assessSecurityImpact(readable(c)).vulnerabilities)
        /\ \A r \in breakingOut :
              /\ ~r.error /\ r.severity # "unknown"
              /\ fromContent(r.breakingChanges)
                    = fromContent(identifyBreakingChanges(readable(c)).breakingChanges)
        /\ \A r \in performanceOut :
              /\ r.performanceImpact # "unknown"
              /\ fromContent(r.hotspots)
                    = fromContent(predictPerformanceImpact(readable(c)).hotspots)

\* an unreadable file ahead of a file with findings, all three analyses done
C25_Witness ==
    \E c \in assessIn : \E r \in breakingOut :
        /\ c.filesChanged = <<"src/util.js", "db/schema.sql">>
        /\ c.tree["src/util.js"] = "unreadable" /\ c.tree["db/schema.sql"] = "ok"
        /\ fromContent(r.breakingChanges) # <<>>
        /\ securityOut # None /\ performanceOut # None

\* C26: a commit is among the dashboard's actionable items only while it has
\* a triage priority of critical or high and the status set last for it is
\* pending or none was ever set; after a last status of reviewed, integrated,
\* skipped, conflict or deferred it is not, whatever it held before.
C26_ActionableOnlyPending ==
    \A r \in repositories : \A row \in actionableItems(dbNow, r.id) :
        /\ \E tr \in triage_results :
              tr.commit_id = row.commit /\ tr.priority \in {"critical", "high"}
        /\ lastStatus[row.commit] \in {NULL, "pending"}

(***************************************************************************)
(* Properties of the learned patterns and of the pattern table.            *)
(***************************************************************************)
\* C27: a learned pattern is kept in the pattern store: a component started
\* after the learn calls returned loads every pattern ever learned into its
\* collection.
C27_LearnedIsLoaded ==
    [][Construct =>
          \A k \in DOMAIN learnedLog :
              \E id \in DOMAIN adaptationPatterns' : adaptationPatterns'[id] = learnedLog[k]]_vars

\* C28: after a pattern of type T was learned, the resolutions generated for
\* a conflict of type T hold a suggestion with that pattern's target-pattern
\* text, of confidence 0.8 where the pattern was learned with success = true
\* and 0.6 otherwise.
C28_LearnedIsSuggested ==
    [][GenerateConflictResolutions =>
          \A k \in DOMAIN conflictData : \A id \in DOMAIN adaptationPatterns :
              adaptationPatterns[id].type = conflictData[k].type =>
                  \A rs \in resolutions' :
                      \E i \in DOMAIN rs[k].suggestions :
                          /\ rs[k].suggestions[i].resolution = adaptationPatterns[id].targetPattern
                          /\ rs[k].suggestions[i].confidence
                                = IF adaptationPatterns[id].success THEN 8000 ELSE 6000]_vars

\* a conflict without a type, in a file whose name holds "undefined", is the
\* one for which a stored pattern is suggested
untypedIsSuggested ==
    \A rs \in resolutions :
        \A k \in DOMAIN rs :
            (\E i \in DOMAIN rs[k].suggestions : rs[k].suggestions[i].method = "adaptation_pattern")
                => conflictData[k].type = Undefined /\ includes(conflictData[k].file, "undefined")

\* C30: the pattern table carries no state from one call to the next: a
\* second generateConflictResolutions call on the same conflict data, with no
\* learn call between the two, returns the suggestions and the recommended
\* approach of the first.
C30_SameCallSameResult ==
    [][GenerateConflictResolutions /\ resolutions # None =>
          resolutions' = resolutions /\ recommendedApproach' = recommendedApproach]_vars

(***************************************************************************)
(* Properties of mergeDependencies.                                        *)
(***************************************************************************)
\* C29: when both sides of a dependency conflict parse, the merged manifest
\* holds every package of either side, a package of both sides has the
\* higher of its two versions whichever side that comes from, and the merge
\* with the sides swapped has the same versions.
C29_HigherVersionKept ==
    \A out \in depsOut :
        depsIn.head # None /\ depsIn.incoming # None =>
            /\ out # None
            /\ \A merged \in out : \A headDeps \in depsIn.head : \A incomingDeps \in depsIn.incoming :
                  /\ DOMAIN merged = DOMAIN headDeps \cup DOMAIN incomingDeps
                  /\ \A pkg \in DOMAIN headDeps \cap DOMAIN incomingDeps :
                        /\ merged[pkg] \in {headDeps[pkg], incomingDeps[pkg]}
                        /\ compareVersions(merged[pkg], headDeps[pkg]) >= 0
                        /\ compareVersions(merged[pkg], incomingDeps[pkg]) >= 0
                  /\ mergeDependencies([head |-> depsIn.incoming, incoming |-> depsIn.head])
                        = out

\* what the shadowed first definition would return keeps the higher version
firstKeepsHigher ==
    \A headDeps \in depsIn.head : \A incomingDeps \in depsIn.incoming :
        \A pkg \in DOMAIN headDeps \cap DOMAIN incomingDeps :
            LET merged == mergeDependenciesFirst(headDeps, incomingDeps)
            IN /\ compareVersions(merged[pkg], headDeps[pkg]) >= 0
               /\ compareVersions(merged[pkg], incomingDeps[pkg]) >= 0

====
